---- MODULE Spec2Model ----
(***************************************************************************)
(* A model of RithmicOrderApi (src/src/rithmic/interfaces/order/           *)
(* order_api.py): the order-plant session (receive loop, heartbeat,        *)
(* dispatch), the login-time reference-data reads, order submission and    *)
(* the bulk amendment of a bracket order's child legs.                     *)
(*                                                                         *)
(* The program runs on two kinds of threads: caller threads, which invoke  *)
(* the public methods, and one asyncio event-loop thread, which runs the   *)
(* coroutines handed over with run_coroutine_threadsafe.  A coroutine runs *)
(* without interruption by another coroutine up to its next await, so one  *)
(* action of the model is one such stretch of a coroutine, or one          *)
(* synchronous stretch of a caller's method.                               *)
(*                                                                         *)
(* Four specifications share the variables:                                *)
(*   Spec        the logged-in session: receive loop and its callers       *)
(*   SpecLogin   _get_login_info and the two streaming-list reads          *)
(*   SpecAmend   bulk and single-leg amendments on one bracket order       *)
(*   SpecSubmit  submit_market/limit/bracket_order and their validation    *)
(***************************************************************************)
EXTENDS Integers, Sequences, FiniteSets, TLC

VARIABLES
    \* ---- transport --------------------------------------------------
    ws_open,                \* self.ws.open
    inbox,                  \* frames sent by the broker, not yet returned by recv_buffer
    nframes,                \* how many frames the broker has sent so far
    sent,                   \* requests written with send_buffer / send_heartbeat, in order
    \* ---- RithmicOrderApi fields -------------------------------------
    have_trading_config,    \* self.have_trading_config
    subscribed_for_updates, \* self.subscribed_for_updates
    _consuming_updates,     \* self._consuming_updates
    accounts,               \* self.accounts (account ids; meaningful once have_trading_config)
    trade_routes,           \* self.trade_routes (records exchange, trade_route)
    rithmic_updates_data,   \* self.rithmic_updates_data
    exchange_updates_data,  \* self.exchange_updates_data
    orders,                 \* self.status_manager: order_id -> order
    callbacks,              \* template ids with a user callback registered
    callback_calls,         \* user callbacks performed, in order
    \* ---- event loop -------------------------------------------------
    tasks,                  \* coroutines scheduled on self.loop, not yet started (FIFO)
    pc,                     \* position of each _consume_order_updates coroutine
    rms_pc,                 \* position of the _get_account_rms coroutine
    raised,                 \* exceptions raised inside a receive loop's try block
    printed,                \* what print(e) at line 307 has written
    task_exc,               \* exceptions left in futures nobody reads
    \* ---- caller thread ----------------------------------------------
    caller_pc,              \* "idle", or the call the caller thread is blocked in
    caller_result,          \* outcome of the caller's last call
    submit_call,            \* the submit call the caller made last (SpecSubmit)
    \* ---- login-time reads (SpecLogin) -------------------------------
    login,                  \* state of the _get_login_info coroutine
    \* ---- bulk amendment (SpecAmend) ---------------------------------
    amend                   \* state of each caller thread's bulk amendment call

transportVars == <<ws_open, inbox, nframes, sent>>
apiVars == <<have_trading_config, subscribed_for_updates, _consuming_updates,
             accounts, trade_routes>>
updateVars == <<rithmic_updates_data, exchange_updates_data, orders,
                callbacks, callback_calls>>
loopVars == <<tasks, pc, rms_pc, raised, printed, task_exc>>
callerVars == <<caller_pc, caller_result>>
vars == <<transportVars, apiVars, updateVars, loopVars, callerVars, submit_call, login, amend>>

-----------------------------------------------------------------------------
(* Bounds of the model.                                                    *)

\* frames the broker sends in one behaviour
MaxFrames == 2
\* requests the client writes in one behaviour of Spec
MaxSent == 4
\* _consume_order_updates coroutines that can be scheduled
MaxLoops == 2
\* exceptions a receive loop raises in one behaviour
MaxRaised == 2

Loops == 1..MaxLoops

\* the cap on sends: connect_and_login sends a fixed sequence of requests,
\* which needs no cap
SendAllowed == Len(sent) < MaxSent \/ login.pc # "idle"

-----------------------------------------------------------------------------
(* Wire framing.                                                           *)

\* the 4-byte big-endian length header of a frame
Header(n) ==
    << (n \div 16777216) % 256, (n \div 65536) % 256, (n \div 256) % 256, n % 256 >>

\* a frame as the broker writes it: header, then the payload
Frame(payload) == Header(Len(payload)) \o payload

\* rp_buf[4:] / msg_buf[4:]: the bytes handed to ParseFromString
Payload(buf) == SubSeq(buf, 5, Len(buf))

\* A payload is <<template_id, message>>; a message is a record of the fields
\* the code reads, with decodable = FALSE for bytes ParseFromString rejects.
get_template_id_from_message_buffer(msg_buf) == Payload(msg_buf)[1]

ParseFromString(buf) == Payload(buf)[2]

Garbled == [decodable |-> FALSE, user_tag |-> "", basket_id |-> "", notify_type |-> ""]

Notification(tag, basket, type) ==
    [decodable |-> TRUE, user_tag |-> tag, basket_id |-> basket, notify_type |-> type]

Plain == Notification("", "", "")

\* the frames the broker sends to a logged-in session
SessionFrames ==
    { Frame(<<19, Plain>>), Frame(<<13, Plain>>),
      Frame(<<351, Notification("o1", "B1", "OPEN")>>), Frame(<<351, Garbled>>),
      Frame(<<352, Notification("o1", "B1", "OPEN")>>),
      Frame(<<313, Notification("o1", "B1", "")>>),
      Frame(<<150, Plain>>) }

ORDER_UPDATE_RESPONSE_MAP == {351, 352, 331, 313}

\* _get_row_information: the message's fields as a dict
RowInformation(template_id, msg) ==
    [template_id |-> template_id, user_tag |-> msg.user_tag,
     basket_id |-> msg.basket_id, notify_type |-> msg.notify_type]

\* row['order_id'] = row.get('user_tag')
WithOrderId(row) ==
    [template_id |-> row.template_id, user_tag |-> row.user_tag, order_id |-> row.user_tag,
     basket_id |-> row.basket_id, notify_type |-> row.notify_type]

-----------------------------------------------------------------------------
(* Requests.                                                               *)

RequestHeartbeat == [msg |-> "RequestHeartbeat"]

RequestSubscribeForOrderUpdates(account_id) ==
    [msg |-> "RequestSubscribeForOrderUpdates", template_id |-> 308, account_id |-> account_id]

RequestSubscribeToBracketUpdates(account_id) ==
    [msg |-> "RequestSubscribeToBracketUpdates", template_id |-> 336, account_id |-> account_id]

RequestAccountRmsInfo == [msg |-> "RequestAccountRmsInfo", template_id |-> 304]

-----------------------------------------------------------------------------
(* The order store (StatusManager) as the notification path changes it.    *)

\* StatusManagerProcessUpdate making up an order for a tag the store lacks
StatusManagerSynthesizes(os, row) ==
    IF row.order_id \notin DOMAIN os
    THEN os @@ (row.order_id :> [status |-> "Acknowledged", basket_id |-> row.basket_id,
                                 modify_count |-> 0])
    ELSE os

\* status_manager._process_rithmic_update / _process_exchange_update: the order
\* the row's user_tag names takes the reported transition; a row for an
\* unknown tag changes nothing.
StatusManagerProcessUpdate(os, row) ==
    IF row.order_id \notin DOMAIN os THEN os
    ELSE LET o == os[row.order_id] IN
         [os EXCEPT ![row.order_id] =
            [o EXCEPT
               !.status = CASE row.notify_type = "OPEN" -> "Acknowledged"
                            [] row.notify_type = "COMPLETE" -> "Filled"
                            [] row.notify_type = "CANCEL" -> "Cancelled"
                            [] row.notify_type = "REJECT" -> "Rejected"
                            [] OTHER -> o.status,
               !.basket_id = IF o.basket_id = "" THEN row.basket_id ELSE o.basket_id,
               !.modify_count = IF row.notify_type = "MODIFY"
                                THEN o.modify_count + 1 ELSE o.modify_count]]

\* _process_rithmic_order_notification (351)
ProcessRithmicOrderNotification(row) ==
    /\ rithmic_updates_data' = Append(rithmic_updates_data, WithOrderId(row))
    /\ orders' = StatusManagerProcessUpdate(orders, WithOrderId(row))
    /\ UNCHANGED exchange_updates_data

\* _process_exchange_order_notification (352)
ProcessExchangeOrderNotification(row) ==
    /\ exchange_updates_data' = Append(exchange_updates_data, WithOrderId(row))
    /\ orders' = StatusManagerProcessUpdate(orders, WithOrderId(row))
    /\ UNCHANGED rithmic_updates_data

\* _process_response_bracket_order (331)
ProcessResponseBracketOrder(row) ==
    UNCHANGED <<rithmic_updates_data, exchange_updates_data, orders>>

\* _process_response_new_order (313)
ProcessResponseNewOrder(row) ==
    UNCHANGED <<rithmic_updates_data, exchange_updates_data, orders>>

\* what the handler of this template id returns
HandlerResult(template_id, row) ==
    IF template_id \in {351, 352} THEN WithOrderId(row) ELSE row

\* the order the row names as a callback finds it in the store, "" when
\* the store holds no such order
FoundStatus(os, row) ==
    IF row.user_tag \in DOMAIN os THEN os[row.user_tag].status ELSE ""

\* CallbackCall made before the handler has run
CallbackCallFirst(template_id, row, os) ==
    [template_id |-> template_id, result |-> HandlerResult(template_id, row),
     found |-> FoundStatus(orders, row)]

\* lines 322-324: perform_callback(callback_fn, [result]), made with the
\* store as the handler left it
CallbackCall(template_id, row, os) ==
    [template_id |-> template_id, result |-> HandlerResult(template_id, row),
     found |-> FoundStatus(os, row)]

\* Unregistered keeping a record of the frame
UnregisteredRecorded(template_id, msg_buf) ==
    /\ rithmic_updates_data' =
           Append(rithmic_updates_data, RowInformation(template_id, ParseFromString(msg_buf)))
    /\ UNCHANGED <<exchange_updates_data, orders, callbacks, callback_calls>>

\* lines 326-327: a template id ORDER_UPDATE_RESPONSE_MAP does not hold
Unregistered(template_id, msg_buf) == UNCHANGED updateVars

\* _process_order_update for a frame whose payload parses
ProcessOrderUpdate(template_id, msg_buf) ==
    IF template_id \in ORDER_UPDATE_RESPONSE_MAP
    THEN LET row == RowInformation(template_id, ParseFromString(msg_buf)) IN
         /\ CASE template_id = 351 -> ProcessRithmicOrderNotification(row)
              [] template_id = 352 -> ProcessExchangeOrderNotification(row)
              [] template_id = 331 -> ProcessResponseBracketOrder(row)
              [] template_id = 313 -> ProcessResponseNewOrder(row)
         /\ callback_calls' =
                IF template_id \in callbacks
                THEN Append(callback_calls, CallbackCall(template_id, row, orders'))
                ELSE callback_calls
         /\ UNCHANGED callbacks
    ELSE Unregistered(template_id, msg_buf)

\* whether _process_order_update raises on this frame: ParseFromString on
\* bytes that are no message of the registered type
ProcessOrderUpdateRaises(template_id, msg_buf) ==
    /\ template_id \in ORDER_UPDATE_RESPONSE_MAP
    /\ ~ParseFromString(msg_buf).decodable

-----------------------------------------------------------------------------
(* _consume_order_updates.                                                 *)

\* AfterFrame ending the loop on a heartbeat acknowledgment too
AfterFrameHeartbeatEnds(template_id) == IF template_id \in {13, 19} THEN "done" ELSE "recv"

\* AfterFrame without the logout-acknowledgment branch
AfterFrameNoLogout(template_id) == "recv"

\* lines 299-305: where the loop goes after a frame with this template id
AfterFrame(template_id) == IF template_id = 13 THEN "done" ELSE "recv"

\* lines 299-305: whether the frame is handed to _process_order_update
Dispatched(template_id) == template_id \notin {19, 13}

\* TimeoutSends without the test of self.ws.open
TimeoutSendsUnchecked(open) == <<RequestHeartbeat>>

\* lines 292-297: what the TimeoutError handler sends
TimeoutSends(open) == IF open THEN <<RequestHeartbeat>> ELSE <<>>

\* lines 292-297: what the TimeoutError handler raises
TimeoutRaises(open) == IF open THEN <<>> ELSE <<"WebsocketClosedException">>

\* lines 306-307: an exception raised in the try block is caught and printed,
\* and the while loop goes on with connected still True
AfterException(exc) == "recv"

\* line 290, recv_buffer returns a frame; lines 298-307 handle it
LoopRecvFrame(l) ==
    /\ pc[l] = "recv"
    /\ inbox # <<>>
    /\ LET msg_buf == Head(inbox)
           template_id == get_template_id_from_message_buffer(msg_buf)
       IN /\ inbox' = Tail(inbox)
          /\ IF Dispatched(template_id) /\ ProcessOrderUpdateRaises(template_id, msg_buf)
             THEN /\ Len(raised) < MaxRaised
                  /\ raised' = Append(raised, "DecodeError")
                  /\ printed' = Append(printed, "DecodeError")
                  /\ pc' = [pc EXCEPT ![l] = AfterException("DecodeError")]
                  /\ UNCHANGED updateVars
             ELSE /\ IF Dispatched(template_id)
                     THEN ProcessOrderUpdate(template_id, msg_buf)
                     ELSE UNCHANGED updateVars
                  /\ pc' = [pc EXCEPT ![l] = AfterFrame(template_id)]
                  /\ UNCHANGED <<raised, printed>>
    /\ UNCHANGED <<ws_open, nframes, sent, apiVars, tasks, rms_pc, task_exc,
                   callerVars, submit_call, login, amend>>

\* line 290, wait_for gives up after the idle window: TimeoutError
LoopRecvTimeout(l) ==
    /\ pc[l] = "recv"
    /\ inbox = <<>>
    /\ pc' = [pc EXCEPT ![l] = "timeout"]
    /\ UNCHANGED <<transportVars, apiVars, updateVars, tasks, rms_pc, raised, printed,
                   task_exc, callerVars, submit_call, login, amend>>

\* lines 292-297 (and 306-307 when the handler raises)
LoopOnTimeout(l) ==
    /\ pc[l] = "timeout"
    /\ Len(sent) + Len(TimeoutSends(ws_open)) <= MaxSent
    /\ Len(raised) + Len(TimeoutRaises(ws_open)) <= MaxRaised
    /\ sent' = sent \o TimeoutSends(ws_open)
    /\ raised' = raised \o TimeoutRaises(ws_open)
    /\ printed' = printed \o TimeoutRaises(ws_open)
    /\ pc' = [pc EXCEPT ![l] = IF TimeoutRaises(ws_open) = <<>> THEN "recv"
                                ELSE AfterException("WebsocketClosedException")]
    /\ UNCHANGED <<ws_open, inbox, nframes, apiVars, updateVars, tasks, rms_pc,
                   task_exc, callerVars, submit_call, login, amend>>

\* line 290, recv_buffer on a closed connection with nothing buffered raises
\* ConnectionClosed, which is no TimeoutError: lines 306-307 catch it
LoopRecvClosed(l) ==
    /\ pc[l] = "recv"
    /\ ~ws_open
    /\ inbox = <<>>
    /\ Len(raised) < MaxRaised
    /\ raised' = Append(raised, "ConnectionClosed")
    /\ printed' = Append(printed, "ConnectionClosed")
    /\ pc' = [pc EXCEPT ![l] = AfterException("ConnectionClosed")]
    /\ UNCHANGED <<transportVars, apiVars, updateVars, tasks, rms_pc, task_exc,
                   callerVars, submit_call, login, amend>>

-----------------------------------------------------------------------------
(* The caller thread and the coroutines it schedules.                      *)

Task(co, account_id, loop) == [co |-> co, account_id |-> account_id, loop |-> loop]

\* the receive-loop coroutines not yet scheduled
FreeLoops == {l \in Loops : pc[l] = "none"}

\* primary_account_id: the exception it raises, "" when it returns an account
PrimaryAccountRaises == IF Len(accounts) = 0 THEN "NoValidTradingAccountException" ELSE ""

\* _check_update_status: the exception it raises, "" when it returns
CheckUpdateStatusRaises ==
    IF have_trading_config
    THEN IF subscribed_for_updates = FALSE THEN PrimaryAccountRaises ELSE ""
    ELSE "NoTradingConfigException"

\* CheckUpdateStatusTasks without the test of subscribed_for_updates
CheckUpdateStatusTasksAlways ==
    IF have_trading_config /\ PrimaryAccountRaises = ""
    THEN << Task("_subscribe_for_order_updates", accounts[1], 0),
            Task("_subscribe_for_bracket_updates", accounts[1], 0) >>
    ELSE <<>>

\* _check_update_status: the coroutines it schedules
CheckUpdateStatusTasks ==
    IF have_trading_config /\ subscribed_for_updates = FALSE /\ PrimaryAccountRaises = ""
    THEN << Task("_subscribe_for_order_updates", accounts[1], 0),
            Task("_subscribe_for_bracket_updates", accounts[1], 0) >>
    ELSE <<>>

\* line 363: whether _run_update_subscription schedules a receive loop
StartsConsumer(consuming) == consuming = FALSE

\* _set_log_in_details
SetLogInDetails(accts, routes) ==
    /\ caller_pc = "idle"
    /\ ~have_trading_config
    /\ accounts' = accts
    /\ trade_routes' = routes
    /\ have_trading_config' = TRUE
    /\ UNCHANGED <<transportVars, subscribed_for_updates, _consuming_updates, updateVars,
                   loopVars, callerVars, submit_call, login, amend>>

\* _run_update_subscription, with the _check_update_status it calls
RunUpdateSubscription ==
    /\ caller_pc = "idle"
    /\ LET exc == CheckUpdateStatusRaises
           start == exc = "" /\ StartsConsumer(_consuming_updates)
       IN /\ start => FreeLoops # {}
          /\ LET l == IF start THEN CHOOSE k \in FreeLoops : \A j \in FreeLoops : k <= j
                      ELSE 0
             IN /\ tasks' = tasks \o CheckUpdateStatusTasks \o
                            (IF start THEN <<Task("_consume_order_updates", "", l)>>
                             ELSE <<>>)
                /\ pc' = IF start THEN [pc EXCEPT ![l] = "scheduled"] ELSE pc
          /\ subscribed_for_updates' = (subscribed_for_updates \/ exc = "")
          /\ caller_result' = IF exc = "" THEN "returned" ELSE exc
    /\ UNCHANGED <<transportVars, have_trading_config, _consuming_updates, accounts,
                   trade_routes, updateVars, rms_pc, raised, printed, task_exc,
                   caller_pc, submit_call, login, amend>>

\* get_account_rms: schedules _get_account_rms and blocks on its future
GetAccountRms ==
    /\ caller_pc = "idle"
    /\ rms_pc = "idle"
    /\ SendAllowed
    /\ tasks' = Append(tasks, Task("_get_account_rms", "", 0))
    /\ rms_pc' = "scheduled"
    /\ caller_pc' = "get_account_rms"
    /\ UNCHANGED <<transportVars, apiVars, updateVars, pc, raised, printed, task_exc,
                   caller_result, submit_call, login, amend>>

\* the event loop starts _subscribe_for_order_updates: it runs to send_buffer
StartSubscribeForOrderUpdates ==
    /\ tasks # <<>>
    /\ Head(tasks).co = "_subscribe_for_order_updates"
    /\ SendAllowed
    /\ sent' = Append(sent, RequestSubscribeForOrderUpdates(Head(tasks).account_id))
    /\ tasks' = Tail(tasks)
    /\ UNCHANGED <<ws_open, inbox, nframes, apiVars, updateVars, pc, rms_pc, raised,
                   printed, task_exc, callerVars, submit_call, login, amend>>

\* the event loop starts _subscribe_for_bracket_updates
StartSubscribeForBracketUpdates ==
    /\ tasks # <<>>
    /\ Head(tasks).co = "_subscribe_for_bracket_updates"
    /\ SendAllowed
    /\ sent' = Append(sent, RequestSubscribeToBracketUpdates(Head(tasks).account_id))
    /\ tasks' = Tail(tasks)
    /\ UNCHANGED <<ws_open, inbox, nframes, apiVars, updateVars, pc, rms_pc, raised,
                   printed, task_exc, callerVars, submit_call, login, amend>>

\* the event loop starts _consume_order_updates: lines 281-283
StartConsumeOrderUpdates ==
    /\ tasks # <<>>
    /\ Head(tasks).co = "_consume_order_updates"
    /\ SendAllowed
    /\ _consuming_updates' = TRUE
    /\ sent' = Append(sent, RequestHeartbeat)
    /\ pc' = [pc EXCEPT ![Head(tasks).loop] = "recv"]
    /\ tasks' = Tail(tasks)
    /\ UNCHANGED <<ws_open, inbox, nframes, have_trading_config, subscribed_for_updates,
                   accounts, trade_routes, updateVars, rms_pc, raised, printed, task_exc,
                   callerVars, submit_call, login, amend>>

\* the event loop starts _get_account_rms: lines 821-830.  Without login
\* details fcm_id is None, and assigning it to the request raises TypeError,
\* which future.result() hands to the caller.
StartGetAccountRms ==
    /\ tasks # <<>>
    /\ Head(tasks).co = "_get_account_rms"
    /\ tasks' = Tail(tasks)
    /\ IF have_trading_config
       THEN /\ SendAllowed
            /\ sent' = Append(sent, RequestAccountRmsInfo)
            /\ rms_pc' = "recv"
            /\ UNCHANGED callerVars
       ELSE /\ rms_pc' = "idle"
            /\ caller_pc' = "idle"
            /\ caller_result' = "TypeError"
            /\ UNCHANGED sent
    /\ UNCHANGED <<ws_open, inbox, nframes, apiVars, updateVars, pc, raised, printed,
                   task_exc, submit_call, login, amend>>

\* _get_account_rms, line 830 on: recv_buffer returns a frame, it is parsed
\* and printed, and get_account_rms returns
RmsRecvFrame ==
    /\ rms_pc = "recv"
    /\ inbox # <<>>
    /\ inbox' = Tail(inbox)
    /\ rms_pc' = "idle"
    /\ caller_pc' = "idle"
    /\ caller_result' = IF ParseFromString(Head(inbox)).decodable THEN "returned"
                        ELSE "DecodeError"
    /\ UNCHANGED <<ws_open, nframes, sent, apiVars, updateVars, tasks, pc, raised,
                   printed, task_exc, submit_call, login, amend>>

-----------------------------------------------------------------------------
(* The broker and the network.                                             *)

BrokerSend(f) ==
    /\ ws_open
    /\ nframes < MaxFrames
    /\ inbox' = Append(inbox, f)
    /\ nframes' = nframes + 1
    /\ UNCHANGED <<ws_open, sent, apiVars, updateVars, loopVars, callerVars, submit_call, login, amend>>

ConnectionDrop ==
    /\ ws_open
    /\ ws_open' = FALSE
    /\ UNCHANGED <<inbox, nframes, sent, apiVars, updateVars, loopVars, callerVars,
                   submit_call, login, amend>>

-----------------------------------------------------------------------------
(* Spec: the session after the transport has connected.                    *)

LoginIdle == [pc |-> "idle"]

\* the caller has made no submit call
NoCall == [fn |-> "", order_id |-> "", exchange_code |-> ""]

AmendIdle == [pc |-> "idle"]

\* the user callbacks a CallbackManager may have registered
CallbackSets == { {}, {351} }

\* the account lists and trade routes login may deliver
AccountLists == { <<>>, <<"A1">> }

RouteLists == { <<>>, <<[exchange |-> "CME", trade_route |-> "R1"]>> }

Init ==
    /\ ws_open = TRUE
    /\ inbox = <<>>
    /\ nframes = 0
    /\ sent = <<>>
    /\ have_trading_config = FALSE
    /\ subscribed_for_updates = FALSE
    /\ _consuming_updates = FALSE
    /\ accounts = <<>>
    /\ trade_routes = <<>>
    /\ rithmic_updates_data = <<>>
    /\ exchange_updates_data = <<>>
    /\ orders = <<>>
    /\ callbacks \in CallbackSets
    /\ callback_calls = <<>>
    /\ tasks = <<>>
    /\ pc = [l \in Loops |-> "none"]
    /\ rms_pc = "idle"
    /\ raised = <<>>
    /\ printed = <<>>
    /\ task_exc = <<>>
    /\ caller_pc = "idle"
    /\ caller_result = ""
    /\ submit_call = NoCall
    /\ login = LoginIdle
    /\ amend = AmendIdle

Next ==
    \/ \E a \in AccountLists : SetLogInDetails(a, <<>>)
    \/ RunUpdateSubscription
    \/ GetAccountRms
    \/ StartSubscribeForOrderUpdates
    \/ StartSubscribeForBracketUpdates
    \/ StartConsumeOrderUpdates
    \/ StartGetAccountRms
    \/ RmsRecvFrame
    \/ \E l \in Loops : LoopRecvFrame(l)
    \/ \E l \in Loops : LoopRecvTimeout(l)
    \/ \E l \in Loops : LoopOnTimeout(l)
    \/ \E l \in Loops : LoopRecvClosed(l)
    \/ \E f \in SessionFrames : BrokerSend(f)
    \/ ConnectionDrop

Spec == Init /\ [][Next]_vars

-----------------------------------------------------------------------------
(* Properties of the receive loop, checked under Spec.                     *)

Heartbeats == Cardinality({i \in DOMAIN sent : sent[i] = RequestHeartbeat})

StartedLoops == {l \in Loops : pc[l] \notin {"none", "scheduled"}}

\* the receive loops and single-response reads now awaiting a frame
Readers ==
    Cardinality({l \in Loops : pc[l] \in {"recv", "timeout"}})
      + (IF rms_pc = "recv" THEN 1 ELSE 0)

\* a step in which a receive loop takes the head of inbox
LoopReads == inbox # <<>> /\ inbox' = Tail(inbox) /\ rms_pc' = rms_pc

\* C1: each time the idle window elapses with no frame received, the loop
\* sends exactly one heartbeat and raises nothing when the connection reports
\* open, and sends nothing and raises WebsocketClosedException when it
\* reports not open.
C1_IdleWindowHeartbeatOrClosed ==
    [][\A l \in Loops :
         (pc[l] = "timeout" /\ pc'[l] # "timeout") =>
            IF ws_open
            THEN sent' = Append(sent, RequestHeartbeat) /\ raised' = raised
            ELSE sent' = sent /\ raised' = Append(raised, "WebsocketClosedException")]_vars

\* both cases of C1 have happened: a heartbeat beyond the one each loop sends
\* when it starts, and a WebsocketClosedException
C1_Witness ==
    /\ Heartbeats > Cardinality(StartedLoops)
    /\ \E i \in DOMAIN raised : raised[i] = "WebsocketClosedException"

\* C2: when the receive loop finds the connection not open, the loop
\* terminates: no further read or heartbeat iteration follows.
C2_ClosedTerminatesLoop ==
    [][\A l \in Loops :
         (pc[l] = "timeout" /\ ~ws_open /\ pc'[l] # "timeout") => pc'[l] = "done"]_vars

\* C3: a frame with template id 13 read by a receive loop ends that loop
\* without being dispatched, and a loop that has ended reads nothing more.
C3_LogoutAckTerminatesLoop ==
    [][/\ (LoopReads /\ get_template_id_from_message_buffer(Head(inbox)) = 13) =>
            /\ \E l \in Loops :
                 /\ pc[l] = "recv" /\ pc'[l] = "done"
                 /\ \A k \in Loops \ {l} : pc'[k] = pc[k]
            /\ UNCHANGED updateVars
       /\ \A l \in Loops : pc[l] = "done" => pc'[l] = "done"]_vars

\* a loop has ended on a logout acknowledgment while a later frame waits unread
C3_Witness ==
    /\ \E l \in Loops : pc[l] = "done"
    /\ \A l \in Loops : pc[l] \in {"none", "done"}
    /\ inbox # <<>>

\* C4: a decode failure on a frame with a recognized template id leaves the
\* receive loop running and is reported as a typed error, not printed.
C4_DecodeFailureReported ==
    [][(/\ LoopReads
        /\ get_template_id_from_message_buffer(Head(inbox)) \in ORDER_UPDATE_RESPONSE_MAP
        /\ ~ParseFromString(Head(inbox)).decodable) =>
            /\ pc' = pc
            /\ printed' = printed]_vars

\* C6: at most one reader awaits the transport: no second receive loop, and
\* no single-response read while a receive loop runs.
C6_SingleReader == Readers <= 1

-----------------------------------------------------------------------------
(* SpecLogin: _get_login_info with _list_accounts and _list_trade_routes.  *)

\* frames the broker sends in one behaviour of SpecLogin
MaxLoginFrames == 6

\* a response message: the fields the three reads look at
Response(rp_code, account_id, exchange, trade_route) ==
    [decodable |-> TRUE, rp_code |-> rp_code, account_id |-> account_id,
     exchange |-> exchange, trade_route |-> trade_route]

\* the frames the broker sends during login: responses with a non-empty
\* rp_code, account records and a trade-route record
LoginFrames ==
    { Frame(<<301, Response(<<"0">>, "", "", "")>>),
      Frame(<<301, Response(<<"7">>, "", "", "")>>),
      Frame(<<303, Response(<<>>, "A1", "", "")>>),
      Frame(<<303, Response(<<>>, "A2", "", "")>>),
      Frame(<<311, Response(<<>>, "", "CME", "R1")>>) }

RequestLoginInfo == [msg |-> "RequestLoginInfo", template_id |-> 300]

RequestAccountList == [msg |-> "RequestAccountList", template_id |-> 302]

RequestTradeRoutes == [msg |-> "RequestTradeRoutes", template_id |-> 310]

\* lines 182-186: the record _list_accounts builds from a frame
AccountRecord(buf) ==
    [template_id |-> get_template_id_from_message_buffer(buf),
     rp_code |-> ParseFromString(buf).rp_code,
     account_id |-> ParseFromString(buf).account_id]

\* lines 211-215: the record _list_trade_routes builds from a frame
TradeRouteRecord(buf) ==
    [template_id |-> get_template_id_from_message_buffer(buf),
     rp_code |-> ParseFromString(buf).rp_code,
     exchange |-> ParseFromString(buf).exchange,
     trade_route |-> ParseFromString(buf).trade_route]

\* ListAppend keeping the terminal frame too
ListAppendAll(list, record, rp_code) == Append(list, record)

\* lines 187-190 and 216-219: the list after a frame with this rp_code
ListAppend(list, record, rp_code) ==
    IF Len(rp_code) > 0 THEN list ELSE Append(list, record)

\* lines 187-188 and 216-217: whether the frame ends the read
ListDone(rp_code) == Len(rp_code) > 0

\* int.from_bytes(bytes, byteorder='big'), unsigned
RECURSIVE BigEndian(_)
BigEndian(bytes) ==
    IF bytes = <<>> THEN 0
    ELSE BigEndian(SubSeq(bytes, 1, Len(bytes) - 1)) * 256 + bytes[Len(bytes)]

\* int.from_bytes(bytes, byteorder='big', signed=True)
int_from_bytes(bytes) ==
    IF Len(bytes) > 0 /\ BigEndian(bytes) >= 2 ^ (8 * Len(bytes) - 1)
    THEN BigEndian(bytes) - 2 ^ (8 * Len(bytes))
    ELSE BigEndian(bytes)

\* lines 135, 178 and 208: rp_length, decoded from rp_buf[0:3]
DecodedLength(rp_buf) == int_from_bytes(SubSeq(rp_buf, 1, 3))

\* the login test that accepts every response
LoginAlwaysSucceeds(rp_code) == TRUE

\* line 140: rp.rp_code[0] == '0'
LoginSucceeded(rp_code) == rp_code[1] = "0"

\* the event loop starts _get_login_info: lines 126-133
GetLoginInfoStart ==
    /\ login.pc = "idle"
    /\ sent' = Append(sent, RequestLoginInfo)
    /\ login' = [login EXCEPT !.pc = "login_recv"]
    /\ UNCHANGED <<ws_open, inbox, nframes, apiVars, updateVars, loopVars, callerVars, submit_call, amend>>

\* lines 133-150, up to the recv_buffer of _list_accounts (line 176): the
\* login response arrives; rp_code[0] decides between _list_accounts and
\* ConnectionError, and an empty rp_code makes rp_code[0] raise IndexError
LoginInfoRecv ==
    /\ login.pc = "login_recv"
    /\ inbox # <<>>
    /\ inbox' = Tail(inbox)
    /\ LET rp == ParseFromString(Head(inbox)) IN
       IF Len(rp.rp_code) = 0
       THEN /\ login' = [login EXCEPT !.pc = "raised", !.result = "IndexError",
                                      !.rp_length = DecodedLength(Head(inbox))]
            /\ UNCHANGED sent
       ELSE IF LoginSucceeded(rp.rp_code)
       THEN /\ sent' = Append(sent, RequestAccountList)
            /\ login' = [login EXCEPT !.pc = "accounts_recv", !.rp_code = rp.rp_code,
                                      !.rp_length = DecodedLength(Head(inbox))]
       ELSE /\ login' = [login EXCEPT !.pc = "raised", !.result = "ConnectionError",
                                      !.rp_code = rp.rp_code,
                                      !.rp_length = DecodedLength(Head(inbox))]
            /\ UNCHANGED sent
    /\ UNCHANGED <<ws_open, nframes, apiVars, updateVars, loopVars, callerVars, submit_call, amend>>

\* _list_accounts, one turn of the while loop (lines 175-190); when the
\* frame ends the read, _list_trade_routes starts and sends (lines 195-207)
ListAccountsRecv ==
    /\ login.pc = "accounts_recv"
    /\ inbox # <<>>
    /\ inbox' = Tail(inbox)
    /\ LET rp_buf == Head(inbox)
           rp_code == ParseFromString(rp_buf).rp_code
       IN /\ login' = [login EXCEPT
                !.accounts = ListAppend(@, AccountRecord(rp_buf), rp_code),
                !.accounts_read = Append(@, rp_buf),
                !.rp_length = DecodedLength(rp_buf),
                !.pc = IF ListDone(rp_code) THEN "routes_recv" ELSE "accounts_recv"]
          /\ sent' = IF ListDone(rp_code) THEN Append(sent, RequestTradeRoutes) ELSE sent
    /\ UNCHANGED <<ws_open, nframes, apiVars, updateVars, loopVars, callerVars, submit_call, amend>>

\* _list_trade_routes, one turn of the while loop (lines 206-219); when the
\* frame ends the read, _get_login_info returns its details (lines 143-149)
ListTradeRoutesRecv ==
    /\ login.pc = "routes_recv"
    /\ inbox # <<>>
    /\ inbox' = Tail(inbox)
    /\ LET rp_buf == Head(inbox)
           rp_code == ParseFromString(rp_buf).rp_code
       IN login' = [login EXCEPT
                !.trade_routes = ListAppend(@, TradeRouteRecord(rp_buf), rp_code),
                !.routes_read = Append(@, rp_buf),
                !.rp_length = DecodedLength(rp_buf),
                !.pc = IF ListDone(rp_code) THEN "returned" ELSE "routes_recv",
                !.result = IF ListDone(rp_code) THEN "details" ELSE @]
    /\ UNCHANGED <<ws_open, nframes, sent, apiVars, updateVars, loopVars, callerVars, submit_call, amend>>

BrokerSendLogin(f) ==
    /\ ws_open
    /\ nframes < MaxLoginFrames
    /\ inbox' = Append(inbox, f)
    /\ nframes' = nframes + 1
    /\ UNCHANGED <<ws_open, sent, apiVars, updateVars, loopVars, callerVars, submit_call, login, amend>>

\* accounts_read and routes_read keep the frames recv_buffer has returned to
\* each streaming-list read, to state what the read must return
LoginStart ==
    [pc |-> "idle", rp_code |-> <<>>, accounts |-> <<>>, trade_routes |-> <<>>,
     accounts_read |-> <<>>, routes_read |-> <<>>, result |-> "", rp_length |-> -1]

InitLogin ==
    /\ ws_open = TRUE
    /\ inbox = <<>>
    /\ nframes = 0
    /\ sent = <<>>
    /\ have_trading_config = FALSE
    /\ subscribed_for_updates = FALSE
    /\ _consuming_updates = FALSE
    /\ accounts = <<>>
    /\ trade_routes = <<>>
    /\ rithmic_updates_data = <<>>
    /\ exchange_updates_data = <<>>
    /\ orders = <<>>
    /\ callbacks = {}
    /\ callback_calls = <<>>
    /\ tasks = <<>>
    /\ pc = [l \in Loops |-> "none"]
    /\ rms_pc = "idle"
    /\ raised = <<>>
    /\ printed = <<>>
    /\ task_exc = <<>>
    /\ caller_pc = "connect_and_login"
    /\ caller_result = ""
    /\ submit_call = NoCall
    /\ login = LoginStart
    /\ amend = AmendIdle

NextLogin ==
    \/ GetLoginInfoStart
    \/ LoginInfoRecv
    \/ ListAccountsRecv
    \/ ListTradeRoutesRecv
    \/ \E f \in LoginFrames : BrokerSendLogin(f)

SpecLogin == InitLogin /\ [][NextLogin]_vars

\* the frames a streaming-list read was given: K record frames (empty
\* rp_code), then one terminal frame
RecordsThenTerminal(read) ==
    /\ Len(read) >= 1
    /\ ListDone(ParseFromString(read[Len(read)]).rp_code)
    /\ \A i \in 1..(Len(read) - 1) : ~ListDone(ParseFromString(read[i]).rp_code)

\* C5: a streaming-list read given K frames with empty rp_code and then one
\* frame with non-empty rp_code returns exactly those K records in arrival
\* order, without the terminal frame; with K = 0 it returns the empty list.
C5_StreamingListReturnsRecords ==
    /\ login.pc \in {"routes_recv", "returned"} =>
         /\ RecordsThenTerminal(login.accounts_read)
         /\ login.accounts = [i \in 1..(Len(login.accounts_read) - 1) |->
                                 AccountRecord(login.accounts_read[i])]
    /\ login.pc = "returned" =>
         /\ RecordsThenTerminal(login.routes_read)
         /\ login.trade_routes = [i \in 1..(Len(login.routes_read) - 1) |->
                                     TradeRouteRecord(login.routes_read[i])]

\* _get_login_info has returned after an account read of two records and a
\* trade-route read of none
C5_Witness ==
    /\ login.pc = "returned"
    /\ Len(login.accounts) = 2
    /\ login.accounts[1].account_id # login.accounts[2].account_id
    /\ login.trade_routes = <<>>

-----------------------------------------------------------------------------
(* SpecConnect: connect_and_login from the login-info request to the       *)
(* started receive loop, on a connection that can be lost.                 *)

\* a recv_buffer that never notices the lost connection
ReadClosedNever(open, pending) == FALSE

\* recv_buffer on a lost connection with nothing left to deliver raises
\* ConnectionClosed
ReadClosed(open, pending) == ~open /\ pending = <<>>

LoginReads == {"login_recv", "accounts_recv", "routes_recv"}

\* lines 133, 176 and 207: the recv_buffer of _get_login_info, _list_accounts
\* or _list_trade_routes raises; nothing catches it, so _get_login_info ends
\* with it and its lists are dropped
LoginRecvClosed ==
    /\ login.pc \in LoginReads
    /\ ReadClosed(ws_open, inbox)
    /\ login' = [login EXCEPT !.pc = "raised", !.result = "ConnectionClosed"]
    /\ UNCHANGED <<transportVars, apiVars, updateVars, loopVars, callerVars, submit_call, amend>>

\* line 114: future.result() raises what _get_login_info raised, and
\* connect_and_login ends with it
ConnectLoginRaised ==
    /\ caller_pc = "connect_and_login"
    /\ login.pc = "raised"
    /\ login' = [login EXCEPT !.pc = "failed"]
    /\ caller_pc' = "idle"
    /\ caller_result' = login.result
    /\ UNCHANGED <<transportVars, apiVars, updateVars, loopVars, submit_call, amend>>

\* a future.result() that does not wait for the trade-route read
LoginFutureDoneEarly(login_pc) == login_pc \in {"routes_recv", "returned"}

\* line 114: future.result() returns once _get_login_info has returned
LoginFutureDone(login_pc) == login_pc = "returned"

\* lines 114-117: future.result() returns the details, _set_log_in_details
\* stores them, and get_account_rms schedules _get_account_rms and blocks
ConnectLoginReturned ==
    /\ caller_pc = "connect_and_login"
    /\ LoginFutureDone(login.pc)
    /\ login' = [login EXCEPT !.pc = "rms"]
    /\ accounts' = [i \in DOMAIN login.accounts |-> login.accounts[i].account_id]
    /\ trade_routes' = [i \in DOMAIN login.trade_routes |->
                          [exchange |-> login.trade_routes[i].exchange,
                           trade_route |-> login.trade_routes[i].trade_route]]
    /\ have_trading_config' = TRUE
    /\ tasks' = Append(tasks, Task("_get_account_rms", "", 0))
    /\ rms_pc' = "scheduled"
    /\ caller_pc' = "get_account_rms"
    /\ UNCHANGED <<transportVars, subscribed_for_updates, _consuming_updates, updateVars,
                   pc, raised, printed, task_exc, caller_result, submit_call, amend>>

\* line 830: the recv_buffer of _get_account_rms raises, and future.result()
\* hands it to the caller
RmsRecvClosed ==
    /\ rms_pc = "recv"
    /\ ReadClosed(ws_open, inbox)
    /\ rms_pc' = "idle"
    /\ caller_pc' = "idle"
    /\ caller_result' = "ConnectionClosed"
    /\ UNCHANGED <<transportVars, apiVars, updateVars, tasks, pc, raised, printed,
                   task_exc, submit_call, login, amend>>

\* line 118: get_account_rms has returned and connect_and_login calls
\* _run_update_subscription
ConnectRunUpdateSubscription ==
    /\ login.pc = "rms"
    /\ rms_pc = "idle"
    /\ caller_result = "returned"
    /\ ~subscribed_for_updates
    /\ RunUpdateSubscription

NextConnect ==
    \/ GetLoginInfoStart
    \/ LoginInfoRecv
    \/ ListAccountsRecv
    \/ ListTradeRoutesRecv
    \/ LoginRecvClosed
    \/ ConnectLoginRaised
    \/ ConnectLoginReturned
    \/ StartGetAccountRms
    \/ RmsRecvFrame
    \/ RmsRecvClosed
    \/ ConnectRunUpdateSubscription
    \/ StartSubscribeForOrderUpdates
    \/ StartSubscribeForBracketUpdates
    \/ StartConsumeOrderUpdates
    \/ \E l \in Loops : LoopRecvFrame(l)
    \/ \E f \in LoginFrames : BrokerSendLogin(f)
    \/ ConnectionDrop

SpecConnect == InitLogin /\ [][NextConnect]_vars

\* the event loop runs a read whose recv_buffer can return or raise
FairSpecConnect ==
    /\ SpecConnect
    /\ WF_vars(LoginInfoRecv) /\ WF_vars(ListAccountsRecv) /\ WF_vars(ListTradeRoutesRecv)
    /\ WF_vars(LoginRecvClosed) /\ WF_vars(RmsRecvFrame) /\ WF_vars(RmsRecvClosed)

\* C22: a pending streaming-list or single-response read does not hang when
\* the connection is lost: once the connection has closed the read ends, and
\* if it closed before the terminal frame (or the single response) arrived
\* the read ends with ConnectionClosed, which reaches the caller of
\* connect_and_login, and no partial list is stored.
C22_LostConnectionEndsRead ==
    /\ (~ws_open /\ login.pc \in LoginReads) ~> (login.pc \notin LoginReads)
    /\ (~ws_open /\ rms_pc = "recv") ~> (rms_pc # "recv")
    /\ [][ReadClosed(ws_open, inbox) /\ login.pc \in LoginReads /\ login' # login =>
            login'.pc = "raised" /\ login'.result = "ConnectionClosed"]_vars
    /\ [][ReadClosed(ws_open, inbox) /\ rms_pc = "recv" /\ rms_pc' # rms_pc =>
            caller_pc' = "idle" /\ caller_result' = "ConnectionClosed"]_vars
    /\ [](login.result = "ConnectionClosed" =>
            /\ accounts = <<>> /\ trade_routes = <<>> /\ ~have_trading_config
            /\ login.pc = "failed" => caller_result = "ConnectionClosed")

\* the connection was lost after one account record and before the terminal
\* frame, and connect_and_login has ended with ConnectionClosed
C22_Witness ==
    /\ login.pc = "failed"
    /\ caller_result = "ConnectionClosed"
    /\ Len(login.accounts_read) = 1
    /\ Len(login.accounts) = 1
    /\ login.routes_read = <<>>
    /\ accounts = <<>>

\* a login read takes the frame at the head of inbox
LoginReadsFrame == login.pc \in LoginReads /\ inbox # <<>> /\ inbox' = Tail(inbox)

\* C25: for every received frame built as a 4-byte big-endian header holding
\* len(payload) followed by the payload, the length the receiver decodes
\* equals len(payload) and the payload it decodes is the bytes from offset
\* 4, so that unframing the frame gives the payload back.
C25_UnframeIsIdentity ==
    [][LoginReadsFrame /\ Head(inbox) = Frame(Payload(Head(inbox))) =>
          /\ login'.rp_length = Len(Payload(Head(inbox)))
          /\ Head(inbox) = Header(login'.rp_length) \o Payload(Head(inbox))]_vars

\* the coroutines awaiting a frame: a login read, the account-RMS read and
\* the receive loops
ConnectReaders == (IF login.pc \in LoginReads THEN 1 ELSE 0) + Readers

\* the requests connect_and_login sends for its reads, in its order
ConnectRequests ==
    << RequestLoginInfo, RequestAccountList, RequestTradeRoutes, RequestAccountRmsInfo >>

\* C30: during connect_and_login the receive loop is started only after the
\* login-info read, the account and trade-route list reads and the
\* account-RMS read have all finished; each of those requests is sent only
\* after the previous read took its final frame; and no two readers await
\* frames at once.
C30_StartupReadsInSequence ==
    /\ ConnectReaders <= 1
    /\ \A l \in Loops : pc[l] # "none" => login.pc = "rms" /\ rms_pc = "idle"
    /\ \A i \in DOMAIN sent : i <= 4 => sent[i] = ConnectRequests[i]
    /\ Len(sent) >= 5 => sent[5] = RequestSubscribeForOrderUpdates(accounts[1])
    /\ Len(sent) >= 6 => sent[6] = RequestSubscribeToBracketUpdates(accounts[1])
    /\ Len(sent) >= 7 => sent[7] = RequestHeartbeat /\ Len(sent) = 7
    /\ Len(sent) >= 2 => login.pc \notin {"idle", "login_recv"}
    /\ Len(sent) >= 3 => RecordsThenTerminal(login.accounts_read)
    /\ Len(sent) >= 4 => RecordsThenTerminal(login.routes_read) /\ login.pc = "rms"
    /\ Len(sent) >= 5 => rms_pc = "idle" /\ caller_result = "returned"

\* connect_and_login has returned: the seven requests are sent and the
\* receive loop awaits its next frame
C30_Witness ==
    /\ Len(sent) = 7
    /\ pc[1] = "recv"
    /\ subscribed_for_updates
    /\ caller_result = "returned"
    /\ nframes = MaxLoginFrames
    /\ inbox = <<>>

\* the requests and the tasks that only a successful login leads to
AfterLoginRequests == {RequestAccountList, RequestTradeRoutes, RequestAccountRmsInfo}

\* the first code of the login response at the head of inbox is not "0"
LoginRejected ==
    /\ login.pc = "login_recv"
    /\ inbox # <<>>
    /\ Len(ParseFromString(Head(inbox)).rp_code) > 0
    /\ ParseFromString(Head(inbox)).rp_code[1] # "0"

\* C21: a login response whose first code is not '0' makes connect fail
\* with the authentication error (the source's ConnectionError) that carries
\* the codes of the response; no account-list or trade-route request is then
\* sent, have_trading_config stays false and no receive loop is started.
C21_LoginRejectedFailsConnect ==
    /\ [][LoginRejected /\ login'.pc # "login_recv" =>
            /\ login'.pc = "raised"
            /\ login'.result = "ConnectionError"
            /\ login'.rp_code = ParseFromString(Head(inbox)).rp_code
            /\ sent' = sent]_vars
    /\ [](login.result = "ConnectionError" =>
            /\ login.rp_code[1] # "0"
            /\ \A i \in DOMAIN sent : sent[i] \notin AfterLoginRequests
            /\ ~have_trading_config
            /\ tasks = <<>>
            /\ \A l \in Loops : pc[l] = "none"
            /\ login.pc = "failed" => caller_result = "ConnectionError")

\* connect_and_login has failed on a response with the code "7"
C21_Witness ==
    /\ login.pc = "failed"
    /\ caller_pc = "idle"
    /\ caller_result = "ConnectionError"
    /\ login.rp_code = <<"7">>

-----------------------------------------------------------------------------
(* SpecAmend: amendments on one acknowledged bracket order "p" with the    *)
(* stop-loss legs "s1", "s2" and the take-profit leg "t1".                  *)

\* modify commands the callers issue in one behaviour of SpecAmend
MaxAmendCmds == 4

\* the caller threads
Threads == {"T1", "T2"}

\* the new stop-loss trigger prices and take-profit limit prices callers ask for
StopLossPrices == {11}

LimitPrices == {21}

Leg(basket_id) ==
    [status |-> "Acknowledged", basket_id |-> basket_id, modify_count |-> 0,
     security_code |-> "ES", exchange_code |-> "CME", quantity |-> 1]

\* a BracketOrder as _add_bracket_order and the broker's acknowledgments leave it
Bracket ==
    [status |-> "Acknowledged", basket_id |-> "Bp", modify_count |-> 0,
     security_code |-> "ES", exchange_code |-> "CME", quantity |-> 1,
     stop_loss_orders |-> <<"s1", "s2">>, take_profit_orders |-> <<"t1">>,
     stop_loss_trigger_price |-> 10, take_profit_limit_price |-> 20,
     all_stops_modified_count |-> 0, all_stops_modified |-> FALSE,
     all_stops_modified_history |-> <<>>,
     all_take_profit_modified_count |-> 0, all_take_profit_modified |-> FALSE,
     all_take_profit_modified_history |-> <<>>]

BracketStore ==
    ("p" :> Bracket) @@ ("s1" :> Leg("Bs1")) @@ ("s2" :> Leg("Bs2")) @@ ("t1" :> Leg("Bt1"))

\* get_order_by_order_id
get_order_by_order_id(order_id) == orders[order_id]

\* the child legs a bulk amendment of this dimension addresses
GroupLegs(parent, dim) ==
    IF dim = "stop" THEN parent.stop_loss_orders ELSE parent.take_profit_orders

\* lines 747 / 780: the parent's value for the dimension
GroupValue(parent, dim) ==
    IF dim = "stop" THEN parent.stop_loss_trigger_price ELSE parent.take_profit_limit_price

\* lines 749 / 782: the parent's amendment counter for the dimension
GroupCount(parent, dim) ==
    IF dim = "stop" THEN parent.all_stops_modified_count
    ELSE parent.all_take_profit_modified_count

GroupHistory(parent, dim) ==
    IF dim = "stop" THEN parent.all_stops_modified_history
    ELSE parent.all_take_profit_modified_history

\* history[key] = entry
HistoryPut(history, key, entry) == (key :> entry) @@ history

RequestModifyOrder(basket_id, symbol, exchange, quantity, price_type, value) ==
    [msg |-> "RequestModifyOrder", template_id |-> 314, basket_id |-> basket_id,
     symbol |-> symbol, exchange |-> exchange, quantity |-> quantity,
     price_type |-> price_type, value |-> value, manual_or_auto |-> "MANUAL"]

\* run_coroutine_threadsafe(self._send_stop_loss_order_amendment(...)) or
\* run_coroutine_threadsafe(self._send_limit_order_amendment(...))
AmendTask(dim, order, value) ==
    [co |-> IF dim = "stop" THEN "_send_stop_loss_order_amendment"
            ELSE "_send_limit_order_amendment",
     basket_id |-> order.basket_id, symbol |-> order.security_code,
     exchange |-> order.exchange_code, quantity |-> order.quantity, value |-> value]

ThreadIdle ==
    [pc |-> "idle", dim |-> "", value |-> 0, current |-> 0, next_modified_count |-> 0,
     modify_map |-> <<>>, i |-> 0]

\* the modify commands issued so far, sent or still scheduled, and those the
\* for loops of the calls in progress have yet to issue
AmendCmds ==
    LET ToIssue(t) ==
            IF amend[t].pc = "issuing"
            THEN Len(GroupLegs(orders["p"], amend[t].dim)) - amend[t].i + 1
            ELSE 0
        RECURSIVE Sum(_)
        Sum(T) == IF T = {} THEN 0
                  ELSE LET t == CHOOSE t \in T : TRUE IN ToIssue(t) + Sum(T \ {t})
    IN Len(tasks) + Len(sent) + Sum(Threads)

\* lines 746-750 / 779-783: the call up to its for loop
BulkAmendCall(t, dim, value) ==
    /\ amend[t].pc = "idle"
    /\ AmendCmds + Len(GroupLegs(get_order_by_order_id("p"), dim)) <= MaxAmendCmds
    /\ LET parent_order == get_order_by_order_id("p") IN
       amend' = [amend EXCEPT ![t] =
                    [pc |-> "issuing", dim |-> dim, value |-> value,
                     current |-> GroupValue(parent_order, dim),
                     next_modified_count |-> GroupCount(parent_order, dim) + 1,
                     modify_map |-> <<>>, i |-> 1]]
    /\ UNCHANGED <<transportVars, apiVars, updateVars, loopVars, callerVars, submit_call, login>>

submit_amend_bracket_order_all_stop_loss_orders(t, stop_loss) ==
    BulkAmendCall(t, "stop", stop_loss)

submit_amend_bracket_order_all_take_profit_orders(t, limit_price) ==
    BulkAmendCall(t, "tp", limit_price)

\* ExpectedModifyCount without the increment
ExpectedModifyCountUnchanged(order) == order.modify_count

\* lines 752 / 785: the modify_count a leg is expected to reach
ExpectedModifyCount(order) == order.modify_count + 1

\* lines 751-759 / 784-792: one turn of the for loop
BulkAmendIssue(t) ==
    /\ amend[t].pc = "issuing"
    /\ LET a == amend[t]
           legs == GroupLegs(get_order_by_order_id("p"), a.dim)
           leg == legs[a.i]
           order == get_order_by_order_id(leg)
       IN /\ amend' = [amend EXCEPT ![t] =
                         [a EXCEPT !.modify_map = (leg :> ExpectedModifyCount(order)) @@ @,
                                   !.i = @ + 1,
                                   !.pc = IF a.i = Len(legs) THEN "waiting" ELSE "issuing"]]
          /\ tasks' = Append(tasks, AmendTask(a.dim, order, a.value))
    /\ UNCHANGED <<transportVars, apiVars, updateVars, pc, rms_pc, raised, printed,
                   task_exc, callerVars, submit_call, login>>

\* AllModified without the wait for the legs
AllModifiedAlways(legs, modify_map) == TRUE

\* lines 762 / 795: all([stop.modify_count == modify_map[stop.order_id] ...])
AllModified(legs, modify_map) ==
    \A i \in DOMAIN legs : get_order_by_order_id(legs[i]).modify_count = modify_map[legs[i]]

\* lines 763-769 / 796-802: the parent after the amendment completes (the
\* entry's modified_at time stamp is left out)
BulkAmendRecord(parent, a) ==
    LET entry == [new |-> a.value, old |-> a.current] IN
    IF a.dim = "stop"
    THEN [parent EXCEPT !.all_stops_modified_count = a.next_modified_count,
                        !.all_stops_modified = TRUE,
                        !.stop_loss_trigger_price = a.value,
                        !.all_stops_modified_history =
                            HistoryPut(@, a.next_modified_count, entry)]
    ELSE [parent EXCEPT !.all_take_profit_modified_count = a.next_modified_count,
                        !.all_take_profit_modified = TRUE,
                        !.take_profit_limit_price = a.value,
                        !.all_take_profit_modified_history =
                            HistoryPut(@, a.next_modified_count, entry)]

\* lines 761-769 / 794-802: a turn of the while loop that finds every leg at
\* its expected modify_count, and the rest of the method
BulkAmendComplete(t) ==
    /\ amend[t].pc = "waiting"
    /\ AllModified(GroupLegs(get_order_by_order_id("p"), amend[t].dim), amend[t].modify_map)
    /\ orders' = [orders EXCEPT !["p"] = BulkAmendRecord(@, amend[t])]
    /\ amend' = [amend EXCEPT ![t] = ThreadIdle]
    /\ UNCHANGED <<transportVars, apiVars, rithmic_updates_data, exchange_updates_data,
                   callbacks, callback_calls, loopVars, callerVars, submit_call, login>>

\* lines 761-762 / 794-795: a turn of the while loop that does not
BulkAmendSpin(t) ==
    /\ amend[t].pc = "waiting"
    /\ ~AllModified(GroupLegs(get_order_by_order_id("p"), amend[t].dim), amend[t].modify_map)
    /\ UNCHANGED vars

\* submit_amend_stop_loss_order / submit_amend_limit_order for one leg
SubmitAmendLeg(t, dim, leg, value) ==
    /\ amend[t].pc = "idle"
    /\ AmendCmds < MaxAmendCmds
    /\ tasks' = Append(tasks, AmendTask(dim, get_order_by_order_id(leg), value))
    /\ UNCHANGED <<transportVars, apiVars, updateVars, pc, rms_pc, raised, printed,
                   task_exc, callerVars, submit_call, login, amend>>

\* the event loop runs _send_stop_loss_order_amendment or
\* _send_limit_order_amendment
StartSendOrderAmendment ==
    /\ tasks # <<>>
    /\ LET task == Head(tasks) IN
       sent' = Append(sent,
                 RequestModifyOrder(task.basket_id, task.symbol, task.exchange, task.quantity,
                     IF task.co = "_send_stop_loss_order_amendment" THEN "STOP_MARKET"
                     ELSE "LIMIT",
                     task.value))
    /\ tasks' = Tail(tasks)
    /\ UNCHANGED <<ws_open, inbox, nframes, apiVars, updateVars, pc, rms_pc, raised,
                   printed, task_exc, callerVars, submit_call, login, amend>>

\* the order a basket id belongs to
OrderOfBasket(basket_id) == CHOOSE o \in DOMAIN orders : orders[o].basket_id = basket_id

\* the broker acknowledges the next modify command with an order notification
BrokerAcknowledgeModify ==
    /\ nframes < Len(sent)
    /\ LET basket_id == sent[nframes + 1].basket_id IN
       inbox' = Append(inbox,
                  Frame(<<351, Notification(OrderOfBasket(basket_id), basket_id, "MODIFY")>>))
    /\ nframes' = nframes + 1
    /\ UNCHANGED <<ws_open, sent, apiVars, updateVars, loopVars, callerVars, submit_call, login, amend>>

InitAmend ==
    /\ ws_open = TRUE
    /\ inbox = <<>>
    /\ nframes = 0
    /\ sent = <<>>
    /\ have_trading_config = TRUE
    /\ subscribed_for_updates = TRUE
    /\ _consuming_updates = TRUE
    /\ accounts = <<"A1">>
    /\ trade_routes = <<[exchange |-> "CME", trade_route |-> "R1"]>>
    /\ rithmic_updates_data = <<>>
    /\ exchange_updates_data = <<>>
    /\ orders = BracketStore
    /\ callbacks = {}
    /\ callback_calls = <<>>
    /\ tasks = <<>>
    /\ pc = [l \in Loops |-> IF l = 1 THEN "recv" ELSE "none"]
    /\ rms_pc = "idle"
    /\ raised = <<>>
    /\ printed = <<>>
    /\ task_exc = <<>>
    /\ caller_pc = "idle"
    /\ caller_result = ""
    /\ submit_call = NoCall
    /\ login = LoginIdle
    /\ amend = [t \in Threads |-> ThreadIdle]

NextAmend ==
    \/ \E t \in Threads, v \in StopLossPrices :
          submit_amend_bracket_order_all_stop_loss_orders(t, v)
    \/ \E t \in Threads, v \in LimitPrices :
          submit_amend_bracket_order_all_take_profit_orders(t, v)
    \/ \E t \in Threads : BulkAmendIssue(t)
    \/ \E t \in Threads : BulkAmendComplete(t)
    \/ \E t \in Threads : BulkAmendSpin(t)
    \/ \E t \in Threads, v \in StopLossPrices : SubmitAmendLeg(t, "stop", "s1", v)
    \/ StartSendOrderAmendment
    \/ BrokerAcknowledgeModify
    \/ LoopRecvFrame(1)

SpecAmend == InitAmend /\ [][NextAmend]_vars

\* the scheduling the program has: a caller thread goes on running, the
\* event loop runs the coroutines handed to it and the receive loop handles
\* the frames that have arrived; the broker owes no acknowledgment
FairSpecAmend ==
    /\ SpecAmend
    /\ \A t \in Threads : WF_vars(BulkAmendIssue(t))
    /\ \A t \in Threads : WF_vars(BulkAmendComplete(t))
    /\ WF_vars(StartSendOrderAmendment)
    /\ WF_vars(LoopRecvFrame(1))

\* a step in which thread t's bulk amendment completes
Completes(t) == amend[t].pc = "waiting" /\ amend'[t].pc = "idle"

MaxKey(history) ==
    IF DOMAIN history = {} THEN 0
    ELSE CHOOSE k \in DOMAIN history : \A j \in DOMAIN history : j <= k

\* C7: a bulk amendment completes only when every leg of its group has the
\* modify_count recorded for it at call time (its modify_count then, plus 1),
\* and on completion it appends exactly one history entry, numbered one more
\* than the greatest number already in the history.
C7_BulkAmendCompletes ==
    [][\A t \in Threads :
         Completes(t) =>
            LET a == amend[t]
                legs == GroupLegs(orders["p"], a.dim)
                before == GroupHistory(orders["p"], a.dim)
                after == GroupHistory(orders'["p"], a.dim)
            IN /\ \A i \in DOMAIN legs : orders[legs[i]].modify_count = a.modify_map[legs[i]]
               /\ DOMAIN after = DOMAIN before \cup {MaxKey(before) + 1}
               /\ Cardinality(DOMAIN after) = Cardinality(DOMAIN before) + 1
               /\ \A k \in DOMAIN before : after[k] = before[k]]_vars

\* C8: a bulk amendment call always returns.
C8_BulkAmendReturns ==
    \A t \in Threads : (amend[t].pc = "waiting") ~> (amend[t].pc = "idle")

\* C9: each history is append-only: no step removes or changes an entry,
\* every completing amendment adds an entry under a number of its own, and
\* the group counter equals the number of entries.
C9_HistoryAppendOnly ==
    [][\A dim \in {"stop", "tp"} :
         LET before == GroupHistory(orders["p"], dim)
             after == GroupHistory(orders'["p"], dim)
             completing == {t \in Threads : Completes(t) /\ amend[t].dim = dim}
         IN /\ \A k \in DOMAIN before : k \in DOMAIN after /\ after[k] = before[k]
            /\ Cardinality(DOMAIN after) = Cardinality(DOMAIN before) + Cardinality(completing)
            /\ GroupCount(orders'["p"], dim) = Cardinality(DOMAIN after)]_vars

\* a step of thread t's for loop, which issues the command for one leg
Issues(t) == amend[t].pc = "issuing" /\ amend'[t] # amend[t]

\* C27: a bulk amendment sends exactly one modify command per child leg of
\* the addressed group (none for the other group or the parent), each with
\* that child's own basket_id, and records for each child the expected
\* modify_count: the child's modify_count when its command is issued, plus 1.
C27_OneModifyPerChild ==
    /\ [][\A t \in Threads :
            Issues(t) =>
               LET a == amend[t]
                   legs == GroupLegs(orders["p"], a.dim)
                   leg == legs[a.i]
                   cmd == tasks'[Len(tasks')]
               IN /\ Len(tasks') = Len(tasks) + 1
                  /\ cmd.basket_id = orders[leg].basket_id
                  /\ cmd.co = (IF a.dim = "stop" THEN "_send_stop_loss_order_amendment"
                               ELSE "_send_limit_order_amendment")
                  /\ cmd.value = a.value
                  /\ amend'[t].modify_map = (leg :> orders[leg].modify_count + 1) @@ a.modify_map
                  /\ leg \notin DOMAIN a.modify_map
                  /\ amend'[t].i = a.i + 1
                  /\ (amend'[t].pc = "waiting") = (a.i = Len(legs))]_vars
    /\ [](\A t \in Threads :
            amend[t].pc = "waiting" =>
               LET legs == GroupLegs(orders["p"], amend[t].dim)
               IN DOMAIN amend[t].modify_map = {legs[i] : i \in DOMAIN legs})

\* a bulk amendment of the stop-loss group has issued its two commands, the
\* one for "s1" after an earlier amendment of "s1" had been acknowledged
C27_Witness ==
    \E t \in Threads :
       /\ amend[t].pc = "waiting"
       /\ amend[t].dim = "stop"
       /\ amend[t].modify_map["s1"] = 2
       /\ amend[t].modify_map["s2"] = 1

\* every leg has reached the modify_count recorded for it
AllAcknowledged(legs, modify_map) ==
    \A i \in DOMAIN legs : orders[legs[i]].modify_count >= modify_map[legs[i]]

\* C28: the parent's group value and its group amendment counter are changed
\* by a bulk amendment only at completion, never before all children are
\* acknowledged; the history entry it appends has as old value the parent's
\* value when the call began and as new value the requested value.
C28_ParentChangedAtCompletion ==
    /\ [][\A dim \in {"stop", "tp"} :
            (\/ GroupValue(orders'["p"], dim) # GroupValue(orders["p"], dim)
             \/ GroupCount(orders'["p"], dim) # GroupCount(orders["p"], dim)
             \/ GroupHistory(orders'["p"], dim) # GroupHistory(orders["p"], dim))
            => \E t \in Threads :
                  /\ Completes(t)
                  /\ amend[t].dim = dim
                  /\ AllAcknowledged(GroupLegs(orders["p"], dim), amend[t].modify_map)
                  /\ GroupValue(orders'["p"], dim) = amend[t].value
                  /\ GroupCount(orders'["p"], dim) = amend[t].next_modified_count
                  /\ GroupHistory(orders'["p"], dim)[amend[t].next_modified_count]
                        = [new |-> amend[t].value, old |-> amend[t].current]]_vars
    /\ [][\A t \in Threads :
            /\ (amend[t].pc = "idle" /\ amend'[t].pc # "idle") =>
                  amend'[t].current = GroupValue(orders["p"], amend'[t].dim)
            /\ (amend[t].pc # "idle" /\ amend'[t].pc # "idle") =>
                  /\ amend'[t].current = amend[t].current
                  /\ amend'[t].value = amend[t].value]_vars

\* a bulk amendment of the stop-loss group has completed: the parent has the
\* requested trigger price and the entry records the change
C28_Witness ==
    /\ orders["p"].stop_loss_trigger_price = 11
    /\ orders["p"].all_stops_modified_count = 1
    /\ orders["p"].all_stops_modified_history[1] = [new |-> 11, old |-> 10]
    /\ \A t \in Threads : amend[t].pc = "idle"

\* C29: once every child leg of a bulk amendment has been acknowledged (its
\* modify_count has reached or passed the value recorded for it), the bulk
\* amendment completes, also when acknowledgments of other amendments have
\* taken a leg's modify_count past the recorded value.
C29_AcknowledgedBulkAmendCompletes ==
    \A t \in Threads :
       (/\ amend[t].pc = "waiting"
        /\ AllAcknowledged(GroupLegs(orders["p"], amend[t].dim), amend[t].modify_map))
       ~> (amend[t].pc = "idle")

-----------------------------------------------------------------------------
(* SpecSubmit: submit_market_order, submit_limit_order and                  *)
(* submit_bracket_order with the coroutines they schedule.                  *)

\* the order ids and exchanges the caller submits with
SubmitIds == {"o1", "o2"}

SubmitExchanges == {"CME", "ICE"}

\* the trade-route lists a login can leave in self.trade_routes
SubmitRouteLists ==
    { <<>>,
      <<[exchange |-> "CME", trade_route |-> "R1"]>>,
      <<[exchange |-> "ICE", trade_route |-> "R2"]>> }

\* get_reference_data(security_code, exchange_code)['tick_multiplier']
tick_multiplier == 25

\* SIDE_MAP with the two sides exchanged
SIDE_MAP_Swapped(is_buy) == IF is_buy THEN "SELL" ELSE "BUY"

\* lines 42-50: SIDE_MAP and BRACKET_SIDE_MAP
SIDE_MAP(is_buy) == IF is_buy THEN "BUY" ELSE "SELL"

\* NewOrder taking the broker's acknowledgment for granted
NewOrderAcknowledged(order_type, security_code, exchange_code, quantity, is_buy, limit_price) ==
    [order_type |-> order_type, status |-> "Acknowledged", basket_id |-> "", modify_count |-> 0,
     security_code |-> security_code, exchange_code |-> exchange_code,
     quantity |-> quantity, is_buy |-> is_buy, limit_price |-> limit_price]

\* StatusManager._add_market_order / _add_limit_order: the order as created
NewOrder(order_type, security_code, exchange_code, quantity, is_buy, limit_price) ==
    [order_type |-> order_type, status |-> "Created", basket_id |-> "", modify_count |-> 0,
     security_code |-> security_code, exchange_code |-> exchange_code,
     quantity |-> quantity, is_buy |-> is_buy, limit_price |-> limit_price]

\* StatusManager._add_bracket_order: the parent with its two child groups,
\* the group prices offset from the limit price by ticks * tick_multiplier
NewBracketOrder(security_code, exchange_code, quantity, is_buy, limit_price, take_profit_ticks, stop_loss_ticks, multiplier) ==
    [order_type |-> "BracketOrder", status |-> "Created", basket_id |-> "",
     modify_count |-> 0,
     security_code |-> security_code, exchange_code |-> exchange_code,
     quantity |-> quantity, is_buy |-> is_buy, limit_price |-> limit_price,
     stop_loss_orders |-> <<>>, take_profit_orders |-> <<>>,
     take_profit_limit_price |->
         IF is_buy THEN limit_price + take_profit_ticks * multiplier
         ELSE limit_price - take_profit_ticks * multiplier,
     stop_loss_trigger_price |->
         IF is_buy THEN limit_price - stop_loss_ticks * multiplier
         ELSE limit_price + stop_loss_ticks * multiplier,
     all_stops_modified_count |-> 0, all_stops_modified |-> FALSE,
     all_stops_modified_history |-> <<>>,
     all_take_profit_modified_count |-> 0, all_take_profit_modified |-> FALSE,
     all_take_profit_modified_history |-> <<>>]

\* the coroutine a submit call schedules, with its arguments
SendOrderTask(co, order_id, security_code, exchange_code, quantity, is_buy, limit_price, take_profit_ticks, stop_loss_ticks) ==
    [co |-> co, order_id |-> order_id, security_code |-> security_code,
     exchange_code |-> exchange_code, quantity |-> quantity, is_buy |-> is_buy,
     limit_price |-> limit_price, take_profit_ticks |-> take_profit_ticks,
     stop_loss_ticks |-> stop_loss_ticks]

\* _get_trade_route: the exception it raises, "" when it returns a route; a
\* DataFrame built from an empty list has no exchange column
GetTradeRouteRaises(exchange_code) ==
    IF Len(trade_routes) = 0 THEN "AttributeError"
    ELSE IF \A i \in DOMAIN trade_routes : trade_routes[i].exchange # exchange_code
    THEN "NoValidTradeRouteException"
    ELSE ""

\* _get_trade_route: df.iloc[0].trade_route
_get_trade_route(exchange_code) ==
    LET i == CHOOSE i \in DOMAIN trade_routes :
                /\ trade_routes[i].exchange = exchange_code
                /\ \A j \in 1..(i - 1) : trade_routes[j].exchange # exchange_code
    IN trade_routes[i].trade_route

\* primary_account_id: self.accounts.iloc[0].account_id
primary_account_id == accounts[1]

\* the exception building the request raises, "" when it is built: fcm_id is
\* None until _set_log_in_details ran (lines 393, 424, 458), then
\* primary_account_id (395, 426, 460) and _get_trade_route (403, 434, 469)
SendOrderRaises(task) ==
    IF ~have_trading_config THEN "TypeError"
    ELSE IF PrimaryAccountRaises # "" THEN PrimaryAccountRaises
    ELSE GetTradeRouteRaises(task.exchange_code)

\* lines 390-403 and 421-435: the RequestNewOrder of a market or limit order
RequestNewOrder(task) ==
    [msg |-> "RequestNewOrder", template_id |-> 312, user_tag |-> task.order_id,
     account_id |-> primary_account_id, exchange |-> task.exchange_code,
     symbol |-> task.security_code, quantity |-> task.quantity,
     transaction_type |-> SIDE_MAP(task.is_buy), duration |-> "DAY",
     price_type |-> IF task.co = "_send_market_order" THEN "MARKET" ELSE "LIMIT",
     manual_or_auto |-> "MANUAL", trade_route |-> _get_trade_route(task.exchange_code),
     price |-> task.limit_price,
     bracket_type |-> "", target_ticks |-> 0, stop_ticks |-> 0]

\* lines 455-475: the RequestBracketOrder
RequestBracketOrder(task) ==
    [msg |-> "RequestBracketOrder", template_id |-> 330, user_tag |-> task.order_id,
     account_id |-> primary_account_id, exchange |-> task.exchange_code,
     symbol |-> task.security_code, quantity |-> task.quantity,
     transaction_type |-> SIDE_MAP(task.is_buy), duration |-> "DAY",
     price_type |-> "LIMIT",
     manual_or_auto |-> "MANUAL", trade_route |-> _get_trade_route(task.exchange_code),
     price |-> task.limit_price,
     bracket_type |-> "TARGET_AND_STOP_STATIC", target_ticks |-> task.take_profit_ticks,
     stop_ticks |-> task.stop_loss_ticks]

\* what a submit call does after the status manager created the order: it
\* schedules the coroutine and returns the order (lines 492-495, 517-520,
\* 538-541)
SubmitReturns(fn, order_type, order, task) ==
    /\ orders' = orders @@ (task.order_id :> order)
    /\ tasks' = Append(tasks, task)
    /\ caller_result' = order_type
    /\ submit_call' = [fn |-> fn, order_id |-> task.order_id,
                       exchange_code |-> task.exchange_code]
    /\ UNCHANGED <<transportVars, apiVars, rithmic_updates_data, exchange_updates_data,
                   callbacks, callback_calls, pc, rms_pc, raised, printed, task_exc,
                   caller_pc, login, amend>>

\* lines 479-495
submit_market_order(order_id, security_code, exchange_code, quantity, is_buy) ==
    /\ order_id \notin DOMAIN orders
    /\ SubmitReturns("submit_market_order", "MarketOrder",
           NewOrder("MarketOrder", security_code, exchange_code, quantity, is_buy, 0),
           SendOrderTask("_send_market_order", order_id, security_code, exchange_code,
                         quantity, is_buy, 0, 0, 0))

\* lines 522-541
submit_limit_order(order_id, security_code, exchange_code, quantity, is_buy, limit_price) ==
    /\ order_id \notin DOMAIN orders
    /\ SubmitReturns("submit_limit_order", "LimitOrder",
           NewOrder("LimitOrder", security_code, exchange_code, quantity, is_buy, limit_price),
           SendOrderTask("_send_limit_order", order_id, security_code, exchange_code,
                         quantity, is_buy, limit_price, 0, 0))

\* lines 497-520
submit_bracket_order(order_id, security_code, exchange_code, quantity, is_buy, limit_price, take_profit_ticks, stop_loss_ticks) ==
    /\ order_id \notin DOMAIN orders
    /\ SubmitReturns("submit_bracket_order", "BracketOrder",
           NewBracketOrder(security_code, exchange_code, quantity, is_buy, limit_price,
                           take_profit_ticks, stop_loss_ticks, tick_multiplier),
           SendOrderTask("_send_bracket_order", order_id, security_code, exchange_code,
                         quantity, is_buy, limit_price, take_profit_ticks, stop_loss_ticks))

\* the event loop runs the scheduled _send_market_order, _send_limit_order or
\* _send_bracket_order (lines 378-477); an exception ends the coroutine and
\* stays in the future run_coroutine_threadsafe returned, which the submit
\* call dropped
StartSendOrder ==
    /\ tasks # <<>>
    /\ LET task == Head(tasks)
           exc == SendOrderRaises(task)
       IN IF exc # ""
          THEN /\ task_exc' = Append(task_exc, exc)
               /\ UNCHANGED sent
          ELSE /\ sent' = Append(sent, IF task.co = "_send_bracket_order"
                                       THEN RequestBracketOrder(task)
                                       ELSE RequestNewOrder(task))
               /\ UNCHANGED task_exc
    /\ tasks' = Tail(tasks)
    /\ UNCHANGED <<ws_open, inbox, nframes, apiVars, updateVars, pc, rms_pc, raised,
                   printed, callerVars, submit_call, login, amend>>

\* the object after construction without login, or after _set_log_in_details
InitSubmit ==
    /\ ws_open = TRUE
    /\ inbox = <<>>
    /\ nframes = 0
    /\ sent = <<>>
    /\ \/ /\ have_trading_config = FALSE
          /\ accounts = <<>>
          /\ trade_routes = <<>>
       \/ /\ have_trading_config = TRUE
          /\ accounts \in AccountLists
          /\ trade_routes \in SubmitRouteLists
    /\ subscribed_for_updates = FALSE
    /\ _consuming_updates = FALSE
    /\ rithmic_updates_data = <<>>
    /\ exchange_updates_data = <<>>
    /\ orders = <<>>
    /\ callbacks = {}
    /\ callback_calls = <<>>
    /\ tasks = <<>>
    /\ pc = [l \in Loops |-> "none"]
    /\ rms_pc = "idle"
    /\ raised = <<>>
    /\ printed = <<>>
    /\ task_exc = <<>>
    /\ caller_pc = "idle"
    /\ caller_result = ""
    /\ submit_call = NoCall
    /\ login = LoginIdle
    /\ amend = AmendIdle

NextSubmit ==
    \/ \E id \in SubmitIds, x \in SubmitExchanges, is_buy \in BOOLEAN :
          submit_market_order(id, "ES", x, 1, is_buy)
    \/ \E id \in SubmitIds, x \in SubmitExchanges, is_buy \in BOOLEAN :
          submit_limit_order(id, "ES", x, 1, is_buy, 10000)
    \/ \E id \in SubmitIds, x \in SubmitExchanges, is_buy \in BOOLEAN :
          submit_bracket_order(id, "ES", x, 1, is_buy, 10000, 8, 4)
    \/ StartSendOrder

SpecSubmit == InitSubmit /\ [][NextSubmit]_vars

\* C10: when a submit call is made without loaded trading configuration,
\* without a primary account or without a trade route for the exchange, the
\* caller of that call gets NoTradingConfigException,
\* NoValidTradingAccountException or NoValidTradeRouteException, and no
\* order frame is written for an exchange that fails the validation.
C10_ValidationRaisedToCaller ==
    LET Expected(x) ==
            IF ~have_trading_config THEN "NoTradingConfigException"
            ELSE IF Len(accounts) = 0 THEN "NoValidTradingAccountException"
            ELSE IF \A i \in DOMAIN trade_routes : trade_routes[i].exchange # x
            THEN "NoValidTradeRouteException"
            ELSE ""
    IN /\ (submit_call # NoCall /\ Expected(submit_call.exchange_code) # "") =>
              caller_result = Expected(submit_call.exchange_code)
       /\ \A i \in DOMAIN sent : Expected(sent[i].exchange) = ""

\* a submit call for this exchange fails validation: no trading config, no
\* trading account, or no trade route for the exchange
ValidationFails(exchange_code) ==
    \/ ~have_trading_config
    \/ Len(accounts) = 0
    \/ \A i \in DOMAIN trade_routes : trade_routes[i].exchange # exchange_code

\* C26: when a submit call fails validation the order store is unchanged: no
\* Order or bracket is created for that order_id, and a later lookup of that
\* order_id does not find one.
C26_FailedSubmitLeavesStore ==
    /\ [][submit_call' # submit_call /\ ValidationFails(submit_call'.exchange_code) =>
            orders' = orders]_vars
    /\ [](submit_call # NoCall /\ ValidationFails(submit_call.exchange_code) =>
            submit_call.order_id \notin DOMAIN orders)

-----------------------------------------------------------------------------
(* SpecOrders: a logged-in session with a working bracket in the store;     *)
(* the caller submits, cancels and amends while the receive loop handles    *)
(* the broker's notifications.                                              *)

\* commands the caller issues in one behaviour of SpecOrders
MaxCmds == 2

\* the commands issued so far: scheduled, sent or failed in their coroutine
OrdersCmds == AmendCmds + Len(task_exc)

\* the order ids the caller cancels: a working leg, an order it has just
\* submitted and an id the store does not hold
CancelIds == {"s1", "o1", "zz"}

\* the frames the broker sends about orders
OrderFrames ==
    { Frame(<<351, Notification("o1", "B1", "OPEN")>>),
      Frame(<<351, Notification("o1", "B9", "CANCEL")>>),
      Frame(<<351, Notification("zz", "B7", "OPEN")>>),
      Frame(<<352, Notification("zz", "B7", "COMPLETE")>>),
      Frame(<<331, Notification("o1", "B1", "")>>),
      Frame(<<351, Notification("t1", "Bt1", "MODIFY")>>) }

\* OrderLookupRaises with the failure of a plain dictionary lookup
OrderLookupKeyError(order_id) ==
    IF order_id \notin DOMAIN orders THEN "KeyError" ELSE ""

\* StatusManager._get_order_by_order_id: the exception an order id raises,
\* "" when the store holds the order
OrderLookupRaises(order_id) ==
    IF order_id \notin DOMAIN orders THEN "OrderNotFound" ELSE ""

\* run_coroutine_threadsafe(self._send_cancel_order(order.basket_id))
CancelTask(basket_id) == [co |-> "_send_cancel_order", basket_id |-> basket_id]

\* lines 545-552: the RequestCancelOrder
RequestCancelOrder(basket_id) ==
    [msg |-> "RequestCancelOrder", template_id |-> 316, user_msg |-> <<"cancel_order">>,
     account_id |-> primary_account_id, basket_id |-> basket_id,
     manual_or_auto |-> "MANUAL"]

\* lines 547-551: the exception building the request raises, "" when it is
\* built; an order the broker has not acknowledged has no basket_id to assign
SendCancelRaises(basket_id) ==
    IF ~have_trading_config THEN "TypeError"
    ELSE IF PrimaryAccountRaises # "" THEN PrimaryAccountRaises
    ELSE IF basket_id = "" THEN "TypeError"
    ELSE ""

\* lines 562-570
submit_cancel_order(order_id) ==
    /\ OrdersCmds < MaxCmds
    /\ submit_call' = [fn |-> "submit_cancel_order", order_id |-> order_id,
                       exchange_code |-> ""]
    /\ IF OrderLookupRaises(order_id) # ""
       THEN /\ caller_result' = OrderLookupRaises(order_id)
            /\ UNCHANGED tasks
       ELSE /\ tasks' = Append(tasks, CancelTask(get_order_by_order_id(order_id).basket_id))
            /\ caller_result' = "None"
    /\ UNCHANGED <<transportVars, apiVars, updateVars, pc, rms_pc, raised, printed,
                   task_exc, caller_pc, login, amend>>

\* lines 579-581: the cancel tasks the for loop schedules, one per entry of
\* parent_order.stop_loss_orders
BracketCancelTasks(parent_order) ==
    [i \in DOMAIN parent_order.stop_loss_orders |->
        CancelTask(get_order_by_order_id(parent_order.stop_loss_orders[i]).basket_id)]

\* lines 572-581
submit_cancel_bracket_order_all_children(order_id) ==
    /\ OrderLookupRaises(order_id) = ""
    /\ OrdersCmds + Len(BracketCancelTasks(get_order_by_order_id(order_id))) <= MaxCmds
    /\ submit_call' = [fn |-> "submit_cancel_bracket_order_all_children",
                       order_id |-> order_id, exchange_code |-> ""]
    /\ tasks' = tasks \o BracketCancelTasks(get_order_by_order_id(order_id))
    /\ caller_result' = "None"
    /\ UNCHANGED <<transportVars, apiVars, updateVars, pc, rms_pc, raised, printed,
                   task_exc, caller_pc, login, amend>>

\* the event loop runs a scheduled _send_cancel_order (lines 543-554)
StartSendCancelOrder ==
    /\ tasks # <<>>
    /\ Head(tasks).co = "_send_cancel_order"
    /\ LET exc == SendCancelRaises(Head(tasks).basket_id) IN
       IF exc # ""
       THEN /\ task_exc' = Append(task_exc, exc)
            /\ UNCHANGED sent
       ELSE /\ sent' = Append(sent, RequestCancelOrder(Head(tasks).basket_id))
            /\ UNCHANGED task_exc
    /\ tasks' = Tail(tasks)
    /\ UNCHANGED <<ws_open, inbox, nframes, apiVars, updateVars, pc, rms_pc, raised,
                   printed, callerVars, submit_call, login, amend>>

\* a submit call of the caller
OrdersSubmit ==
    /\ OrdersCmds < MaxCmds
    /\ \/ submit_market_order("o1", "ES", "CME", 1, TRUE)
       \/ submit_bracket_order("o1", "ES", "CME", 1, FALSE, 10000, 8, 4)

\* the event loop runs a scheduled _send_market_order, _send_limit_order or
\* _send_bracket_order
OrdersStartSendOrder ==
    /\ tasks # <<>>
    /\ Head(tasks).co \in {"_send_market_order", "_send_limit_order", "_send_bracket_order"}
    /\ StartSendOrder

\* submit_amend_limit_order for the take-profit leg
OrdersAmendLeg ==
    /\ OrdersCmds < MaxCmds
    /\ SubmitAmendLeg("T1", "tp", "t1", 21)

\* submit_amend_bracket_order_all_take_profit_orders
OrdersBulkAmend ==
    /\ OrdersCmds < MaxCmds
    /\ submit_amend_bracket_order_all_take_profit_orders("T1", 21)

\* the event loop runs a scheduled amendment
OrdersStartSendAmendment ==
    /\ tasks # <<>>
    /\ Head(tasks).co \in {"_send_stop_loss_order_amendment", "_send_limit_order_amendment"}
    /\ StartSendOrderAmendment

InitOrders ==
    /\ ws_open = TRUE
    /\ inbox = <<>>
    /\ nframes = 0
    /\ sent = <<>>
    /\ have_trading_config = TRUE
    /\ subscribed_for_updates = TRUE
    /\ _consuming_updates = TRUE
    /\ accounts = <<"A1">>
    /\ trade_routes = <<[exchange |-> "CME", trade_route |-> "R1"]>>
    /\ rithmic_updates_data = <<>>
    /\ exchange_updates_data = <<>>
    /\ orders = BracketStore
    /\ callbacks \in CallbackSets
    /\ callback_calls = <<>>
    /\ tasks = <<>>
    /\ pc = [l \in Loops |-> IF l = 1 THEN "recv" ELSE "none"]
    /\ rms_pc = "idle"
    /\ raised = <<>>
    /\ printed = <<>>
    /\ task_exc = <<>>
    /\ caller_pc = "idle"
    /\ caller_result = ""
    /\ submit_call = NoCall
    /\ login = LoginIdle
    /\ amend = [t \in Threads |-> ThreadIdle]

NextOrders ==
    \/ OrdersSubmit
    \/ \E id \in CancelIds : submit_cancel_order(id)
    \/ submit_cancel_bracket_order_all_children("p")
    \/ OrdersAmendLeg
    \/ OrdersBulkAmend
    \/ BulkAmendIssue("T1")
    \/ BulkAmendComplete("T1")
    \/ BulkAmendSpin("T1")
    \/ OrdersStartSendOrder
    \/ StartSendCancelOrder
    \/ OrdersStartSendAmendment
    \/ \E f \in OrderFrames : BrokerSend(f)
    \/ LoopRecvFrame(1)

SpecOrders == InitOrders /\ [][NextOrders]_vars

\* a step in which the caller calls submit_cancel_order(order_id)
CancelCall(order_id) ==
    /\ submit_call' # submit_call
    /\ submit_call' = [fn |-> "submit_cancel_order", order_id |-> order_id,
                       exchange_code |-> ""]

\* C11: submit_cancel_order with an order id the store does not hold fails
\* with OrderNotFound, schedules and sends no cancel command, and leaves the
\* order store unchanged.
C11_CancelUnknownOrderFails ==
    [][\A id \in CancelIds :
         (CancelCall(id) /\ id \notin DOMAIN orders) =>
            /\ caller_result' = "OrderNotFound"
            /\ tasks' = tasks
            /\ sent' = sent
            /\ orders' = orders]_vars

\* the caller has cancelled an order id the store does not hold
C11_Witness ==
    /\ submit_call.fn = "submit_cancel_order"
    /\ submit_call.order_id \notin DOMAIN orders
    /\ caller_result = "OrderNotFound"

\* C12: submit_cancel_order for a known order whose basket_id the broker has
\* not assigned yet raises BasketIdNotYetAssigned to the caller and schedules
\* no cancel command.
C12_CancelUnacknowledgedFails ==
    [][\A id \in CancelIds :
         (CancelCall(id) /\ id \in DOMAIN orders /\ orders[id].basket_id = "") =>
            /\ caller_result' = "BasketIdNotYetAssigned"
            /\ tasks' = tasks]_vars

\* C13: a submit call creates the order with status Created and returns the
\* order without a frame having been written; the command frame is written
\* after the order exists, once per order, and the order's status is
\* Submitted when its frame has been sent.
C13_SubmittedOnceSent ==
    [][/\ \A id \in SubmitIds :
            (id \notin DOMAIN orders /\ id \in DOMAIN orders') =>
               /\ orders'[id].status = "Created"
               /\ sent' = sent
               /\ caller_result' = orders'[id].order_type
       /\ (Len(sent') = Len(sent) + 1
             /\ sent'[Len(sent')].msg \in {"RequestNewOrder", "RequestBracketOrder"}) =>
               LET id == sent'[Len(sent')].user_tag IN
               /\ id \in DOMAIN orders
               /\ \A i \in DOMAIN sent :
                     sent[i].msg \in {"RequestNewOrder", "RequestBracketOrder"} =>
                        sent[i].user_tag # id
               /\ orders'[id].status = "Submitted"]_vars

\* the statuses only the broker reports
BrokerStatuses == {"Acknowledged", "Filled", "Cancelled", "Rejected"}

\* C14: a step that is not the receive loop handling a frame (a submit,
\* cancel, single-leg amend or bulk amend call, or a coroutine such a call
\* scheduled) leaves every order's status, basket_id and modify_count as they
\* were, and an order it creates has no broker-reported status, no basket_id
\* and modify_count 0.
C14_BrokerFieldsOnlyByNotification ==
    [][~LoopReads =>
         \A id \in DOMAIN orders' :
            IF id \in DOMAIN orders
            THEN /\ orders'[id].status = orders[id].status
                 /\ orders'[id].basket_id = orders[id].basket_id
                 /\ orders'[id].modify_count = orders[id].modify_count
            ELSE /\ orders'[id].status \notin BrokerStatuses
                 /\ orders'[id].basket_id = ""
                 /\ orders'[id].modify_count = 0]_vars

\* the caller has submitted an order and a bulk amendment has completed,
\* the parent's status as the broker last reported it
C14_Witness ==
    /\ "o1" \in DOMAIN orders
    /\ orders["p"].all_take_profit_modified
    /\ orders["p"].status = "Acknowledged"

\* C15: for each frame with template id 351, 352, 313 or 331 that the
\* receive loop decodes, its handler appends exactly one record to the update
\* log (rithmic_updates_data and exchange_updates_data), at the end, and no
\* step changes or removes an earlier entry.
C15_OneRecordPerFrame ==
    [][/\ Len(rithmic_updates_data') >= Len(rithmic_updates_data)
       /\ SubSeq(rithmic_updates_data', 1, Len(rithmic_updates_data)) = rithmic_updates_data
       /\ Len(exchange_updates_data') >= Len(exchange_updates_data)
       /\ SubSeq(exchange_updates_data', 1, Len(exchange_updates_data)) = exchange_updates_data
       /\ (/\ LoopReads
           /\ get_template_id_from_message_buffer(Head(inbox)) \in ORDER_UPDATE_RESPONSE_MAP
           /\ ParseFromString(Head(inbox)).decodable) =>
              Len(rithmic_updates_data') + Len(exchange_updates_data')
                 = Len(rithmic_updates_data) + Len(exchange_updates_data) + 1]_vars

\* C16: when the receive loop has handled a bracket-order response (331)
\* carrying a basket_id for a bracket the store holds, the parent and each of
\* its stop-loss and take-profit legs have that basket_id, and no step
\* changes a basket_id that is set.
C16_BracketBasketIdAssigned ==
    [][/\ \A id \in DOMAIN orders :
            orders[id].basket_id # "" => orders'[id].basket_id = orders[id].basket_id
       /\ (/\ LoopReads
           /\ get_template_id_from_message_buffer(Head(inbox)) = 331
           /\ ParseFromString(Head(inbox)).user_tag \in DOMAIN orders
           /\ "stop_loss_orders" \in DOMAIN orders[ParseFromString(Head(inbox)).user_tag]) =>
              LET msg == ParseFromString(Head(inbox))
                  parent == orders[msg.user_tag]
                  basket_id == IF parent.basket_id = "" THEN msg.basket_id
                               ELSE parent.basket_id
                  legs == parent.stop_loss_orders \o parent.take_profit_orders
              IN /\ orders'[msg.user_tag].basket_id = basket_id
                 /\ \A i \in DOMAIN legs : orders'[legs[i]].basket_id = basket_id]_vars

\* C17: an order or exchange notification whose user_tag names no order of
\* the store is appended to the update log, and the step creates no order
\* and changes no order.
C17_UnknownTagRecordedOnly ==
    [][(/\ LoopReads
        /\ get_template_id_from_message_buffer(Head(inbox)) \in {351, 352}
        /\ ParseFromString(Head(inbox)).decodable
        /\ ParseFromString(Head(inbox)).user_tag \notin DOMAIN orders) =>
           LET template_id == get_template_id_from_message_buffer(Head(inbox))
               row == WithOrderId(RowInformation(template_id, ParseFromString(Head(inbox))))
           IN /\ IF template_id = 351
                 THEN rithmic_updates_data' = Append(rithmic_updates_data, row)
                 ELSE exchange_updates_data' = Append(exchange_updates_data, row)
              /\ orders' = orders]_vars

\* both logs hold a record for the unknown tag while the store holds orders,
\* one of them submitted in this session
C17_Witness ==
    /\ \E i \in DOMAIN rithmic_updates_data : rithmic_updates_data[i].order_id = "zz"
    /\ \E i \in DOMAIN exchange_updates_data : exchange_updates_data[i].order_id = "zz"
    /\ "zz" \notin DOMAIN orders
    /\ "o1" \in DOMAIN orders

\* a step in which a receive loop takes a frame with this template id
LoopReadsId(template_id) ==
    LoopReads /\ get_template_id_from_message_buffer(Head(inbox)) = template_id

\* C18: a frame whose template id is neither in ORDER_UPDATE_RESPONSE_MAP nor
\* a heartbeat or logout acknowledgment is ignored: the step appends no
\* record, changes no order, invokes no callback, raises and prints nothing,
\* and every receive loop goes on as before.
C18_UnregisteredIdIgnored ==
    [][(LoopReads /\ get_template_id_from_message_buffer(Head(inbox))
                        \notin ORDER_UPDATE_RESPONSE_MAP \cup {13, 19}) =>
           /\ UNCHANGED updateVars
           /\ raised' = raised
           /\ printed' = printed
           /\ pc' = pc]_vars

\* a receive loop is about to read a frame with the unregistered id 150,
\* with a record in the log and a callback registered
C18_Witness ==
    /\ inbox # <<>>
    /\ get_template_id_from_message_buffer(Head(inbox)) = 150
    /\ \E l \in Loops : pc[l] = "recv"
    /\ rithmic_updates_data # <<>>
    /\ callbacks # {}

\* C19: for each frame with a registered template id that decodes, the
\* handler runs once (a 351 or 352 frame adds its one record) and, if a
\* callback is registered for the id, the callback is invoked once with the
\* handler's record and finds the store as the handler left it; with no
\* callback registered, and in every other step, no callback is invoked.
C19_CallbackAfterHandler ==
    [][IF /\ LoopReads
          /\ get_template_id_from_message_buffer(Head(inbox)) \in ORDER_UPDATE_RESPONSE_MAP
          /\ ParseFromString(Head(inbox)).decodable
       THEN LET template_id == get_template_id_from_message_buffer(Head(inbox))
                row == RowInformation(template_id, ParseFromString(Head(inbox)))
                result == IF template_id \in {351, 352} THEN WithOrderId(row) ELSE row
            IN /\ template_id = 351 => rithmic_updates_data' = Append(rithmic_updates_data, result)
               /\ template_id = 352 => exchange_updates_data' = Append(exchange_updates_data, result)
               /\ callback_calls' =
                     IF template_id \in callbacks
                     THEN Append(callback_calls,
                                 [template_id |-> template_id, result |-> result,
                                  found |-> IF row.user_tag \in DOMAIN orders'
                                            THEN orders'[row.user_tag].status ELSE ""])
                     ELSE callback_calls
       ELSE callback_calls' = callback_calls]_vars

\* the callback registered for 351 has been invoked for an order submitted in
\* this session and found it acknowledged
C19_Witness ==
    /\ callbacks = {351}
    /\ \E i \in DOMAIN callback_calls :
          /\ callback_calls[i].result.user_tag = "o1"
          /\ callback_calls[i].found = "Acknowledged"

\* C20: a frame with the heartbeat-acknowledgment template id 19 is dropped:
\* it is not handed to _process_order_update, the step appends no record,
\* changes no order, invokes no callback and raises nothing, and every
\* receive loop goes on to its next read.
C20_HeartbeatAckDropped ==
    [][LoopReadsId(19) =>
           /\ ~Dispatched(19)
           /\ UNCHANGED updateVars
           /\ raised' = raised
           /\ printed' = printed
           /\ pc' = pc
           /\ \E l \in Loops : pc'[l] = "recv"]_vars

\* a receive loop that has sent a heartbeat is about to read the
\* acknowledgment, with a record in the log
C20_Witness ==
    /\ inbox # <<>>
    /\ get_template_id_from_message_buffer(Head(inbox)) = 19
    /\ \E l \in Loops : pc[l] = "recv"
    /\ Heartbeats > 0
    /\ rithmic_updates_data # <<>>

\* the child legs of a bracket order, of both groups
ChildLegs(parent_order) == parent_order.stop_loss_orders \o parent_order.take_profit_orders

\* C23: submit_cancel_bracket_order_all_children schedules exactly one
\* cancel command for every child leg of the bracket, of the stop-loss group
\* and of the take-profit group, each with that child's basket_id.
C23_CancelsEveryChild ==
    [][/\ submit_call'.fn = "submit_cancel_bracket_order_all_children"
       /\ submit_call.fn # "submit_cancel_bracket_order_all_children"
       => LET children == ChildLegs(orders[submit_call'.order_id])
              added == (Len(tasks) + 1)..Len(tasks')
          IN /\ Len(tasks') = Len(tasks) + Len(children)
             /\ \A i \in DOMAIN children :
                   Cardinality({k \in added :
                       tasks'[k] = CancelTask(orders[children[i]].basket_id)}) = 1]_vars

-----------------------------------------------------------------------------
(* SpecBuilder: every command the API builds, on a logged-in session with  *)
(* the bracket order "p" in the store.                                     *)

\* run_coroutine_threadsafe(self._send_bracket_order_stop_amendment(...)) or
\* run_coroutine_threadsafe(self._send_bracket_order_target_amendment(...))
LevelTask(co, basket_id, old_ticks, new_ticks) ==
    [co |-> co, basket_id |-> basket_id, old_ticks |-> old_ticks, new_ticks |-> new_ticks]

\* lines 593-598: the RequestUpdateStopBracketLevel
RequestUpdateStopBracketLevel(basket_id, old_stop_ticks, new_stop_ticks) ==
    [msg |-> "RequestUpdateStopBracketLevel", template_id |-> 334,
     account_id |-> primary_account_id, basket_id |-> basket_id,
     level |-> old_stop_ticks, stop_ticks |-> new_stop_ticks]

\* lines 664-669: the RequestUpdateTargetBracketLevel
RequestUpdateTargetBracketLevel(basket_id, old_target_ticks, new_target_ticks) ==
    [msg |-> "RequestUpdateTargetBracketLevel", template_id |-> 332,
     account_id |-> primary_account_id, basket_id |-> basket_id,
     level |-> old_target_ticks, target_ticks |-> new_target_ticks]

\* lines 673-685
submit_amend_bracket_order_stop_size(order_id, old_stop_ticks, new_stop_ticks) ==
    /\ OrdersCmds < MaxCmds
    /\ OrderLookupRaises(order_id) = ""
    /\ tasks' = Append(tasks, LevelTask("_send_bracket_order_stop_amendment",
                         get_order_by_order_id(order_id).basket_id,
                         old_stop_ticks, new_stop_ticks))
    /\ UNCHANGED <<transportVars, apiVars, updateVars, pc, rms_pc, raised, printed,
                   task_exc, callerVars, submit_call, login, amend>>

\* lines 687-700
submit_amend_bracket_order_take_profit_size(basket_id, old_target_ticks, new_target_ticks) ==
    /\ OrdersCmds < MaxCmds
    /\ tasks' = Append(tasks, LevelTask("_send_bracket_order_target_amendment",
                         basket_id, old_target_ticks, new_target_ticks))
    /\ UNCHANGED <<transportVars, apiVars, updateVars, pc, rms_pc, raised, printed,
                   task_exc, callerVars, submit_call, login, amend>>

\* the event loop runs a scheduled _send_bracket_order_stop_amendment (lines
\* 583-600) or _send_bracket_order_target_amendment (lines 654-671)
StartSendBracketLevelAmendment ==
    /\ tasks # <<>>
    /\ Head(tasks).co \in {"_send_bracket_order_stop_amendment",
                           "_send_bracket_order_target_amendment"}
    /\ LET task == Head(tasks) IN
       sent' = Append(sent,
                 IF task.co = "_send_bracket_order_stop_amendment"
                 THEN RequestUpdateStopBracketLevel(task.basket_id, task.old_ticks,
                                                    task.new_ticks)
                 ELSE RequestUpdateTargetBracketLevel(task.basket_id, task.old_ticks,
                                                      task.new_ticks))
    /\ tasks' = Tail(tasks)
    /\ UNCHANGED <<ws_open, inbox, nframes, apiVars, updateVars, pc, rms_pc, raised,
                   printed, task_exc, callerVars, submit_call, login, amend>>

\* a submit call with either side
BuilderSubmit ==
    /\ OrdersCmds < MaxCmds
    /\ \E id \in SubmitIds, is_buy \in BOOLEAN :
         \/ submit_market_order(id, "ES", "CME", 1, is_buy)
         \/ submit_limit_order(id, "ES", "CME", 1, is_buy, 10000)
         \/ submit_bracket_order(id, "ES", "CME", 1, is_buy, 10000, 8, 4)

\* submit_amend_stop_loss_order or submit_amend_limit_order for a leg
BuilderAmendLeg ==
    /\ OrdersCmds < MaxCmds
    /\ \/ SubmitAmendLeg("T1", "stop", "s1", 11)
       \/ SubmitAmendLeg("T1", "tp", "t1", 21)

NextBuilder ==
    \/ BuilderSubmit
    \/ submit_cancel_order("s1")
    \/ BuilderAmendLeg
    \/ submit_amend_bracket_order_stop_size("p", 4, 6)
    \/ submit_amend_bracket_order_take_profit_size("Bp", 8, 12)
    \/ OrdersStartSendOrder
    \/ StartSendCancelOrder
    \/ OrdersStartSendAmendment
    \/ StartSendBracketLevelAmendment

InitBuilder == InitOrders

SpecBuilder == InitBuilder /\ [][NextBuilder]_vars

\* the message-type id of the command each coroutine builds
BuilderId(co) ==
    CASE co \in {"_send_market_order", "_send_limit_order"} -> 312
      [] co = "_send_bracket_order" -> 330
      [] co = "_send_cancel_order" -> 316
      [] co \in {"_send_stop_loss_order_amendment", "_send_limit_order_amendment"} -> 314
      [] co = "_send_bracket_order_stop_amendment" -> 334
      [] co = "_send_bracket_order_target_amendment" -> 332

\* the step in which the event loop builds and sends the command of the
\* coroutine at the head of tasks
Builds == tasks # <<>> /\ Len(sent') = Len(sent) + 1

\* the message-type id and the side of the command built in this step
BuiltIdAndSide ==
    LET task == Head(tasks)
        rq == sent'[Len(sent')]
    IN /\ rq.template_id = BuilderId(task.co)
       /\ "is_buy" \in DOMAIN task =>
            rq.transaction_type = (IF task.is_buy THEN "BUY" ELSE "SELL")

\* C24 as stated: every operation yields its fixed message-type id, is_buy
\* maps to BUY and SELL, and every built message has the duration day-order
\* and the manual/auto flag manual.
C24_EveryMessageDayManual ==
    [][Builds =>
         /\ BuiltIdAndSide
         /\ LET rq == sent'[Len(sent')]
            IN /\ "duration" \in DOMAIN rq /\ rq.duration = "DAY"
               /\ "manual_or_auto" \in DOMAIN rq /\ rq.manual_or_auto = "MANUAL"]_vars

\* C24, amended: every operation yields its fixed message-type id, is_buy
\* maps to BUY and SELL, the duration is day-order on every new-order and
\* bracket-order message and the manual/auto flag is manual on every
\* new-order, bracket-order, cancel and modify message; cancel and modify
\* messages carry no duration and the two bracket level updates carry
\* neither field.
C24_BuilderFixedFields ==
    [][Builds =>
         /\ BuiltIdAndSide
         /\ LET rq == sent'[Len(sent')]
            IN /\ ("duration" \in DOMAIN rq) = (rq.template_id \in {312, 330})
               /\ "duration" \in DOMAIN rq => rq.duration = "DAY"
               /\ ("manual_or_auto" \in DOMAIN rq) = (rq.template_id \in {312, 330, 316, 314})
               /\ "manual_or_auto" \in DOMAIN rq => rq.manual_or_auto = "MANUAL"]_vars

\* a SELL bracket order and a bracket stop-level update have been built
C24_Witness ==
    /\ \E i \in DOMAIN sent : sent[i].template_id = 330 /\ sent[i].transaction_type = "SELL"
    /\ \E i \in DOMAIN sent : sent[i].template_id = 334

-----------------------------------------------------------------------------
(* Spec: the subscription requests and the flags of the receive loop.      *)

\* the subscription requests issued so far for one coroutine: scheduled on
\* the event loop or already sent
Issued(co, msg) ==
    Cardinality({i \in DOMAIN tasks : tasks[i].co = co})
      + Cardinality({i \in DOMAIN sent : sent[i].msg = msg})

IssuedOrderUpdates == Issued("_subscribe_for_order_updates", "RequestSubscribeForOrderUpdates")

IssuedBracketUpdates == Issued("_subscribe_for_bracket_updates", "RequestSubscribeToBracketUpdates")

\* a step of _run_update_subscription, which calls _check_update_status
ChecksUpdateStatus ==
    /\ caller_pc = "idle" /\ caller_pc' = "idle"
    /\ rms_pc' = rms_pc
    /\ have_trading_config' = have_trading_config
    /\ \/ caller_result' # caller_result
       \/ tasks' # tasks /\ Len(tasks') > Len(tasks)
       \/ subscribed_for_updates' # subscribed_for_updates

\* C31 as stated: _check_update_status raises NoTradingConfig and sends
\* nothing when reference data is not loaded; once reference data is loaded,
\* after any number of calls each of the two subscription requests has been
\* issued exactly once; and subscribed_for_updates is true only if both
\* requests were issued.
C31_SubscribedExactlyOnce ==
    /\ [][ChecksUpdateStatus =>
            IF have_trading_config
            THEN IssuedOrderUpdates' = 1 /\ IssuedBracketUpdates' = 1
            ELSE /\ caller_result' = "NoTradingConfigException"
                 /\ tasks' = tasks /\ sent' = sent]_vars
    /\ [](subscribed_for_updates => IssuedOrderUpdates = 1 /\ IssuedBracketUpdates = 1)

\* C31, amended: _check_update_status raises NoTradingConfig and sends
\* nothing when reference data is not loaded; once reference data with at
\* least one account is loaded, after any number of calls each of the two
\* subscription requests has been issued exactly once, while with an empty
\* account list every call raises NoValidTradingAccount and issues nothing;
\* no request is ever issued twice, and subscribed_for_updates is true
\* exactly if both requests were issued.
C31_SubscribedOnceWithAccount ==
    /\ [][ChecksUpdateStatus =>
            IF ~have_trading_config
            THEN /\ caller_result' = "NoTradingConfigException"
                 /\ tasks' = tasks /\ sent' = sent
            ELSE IF Len(accounts) = 0
            THEN /\ caller_result' = "NoValidTradingAccountException"
                 /\ tasks' = tasks /\ sent' = sent
            ELSE IssuedOrderUpdates' = 1 /\ IssuedBracketUpdates' = 1]_vars
    /\ [](/\ IssuedOrderUpdates <= 1 /\ IssuedBracketUpdates <= 1
          /\ subscribed_for_updates = (IssuedOrderUpdates = 1 /\ IssuedBracketUpdates = 1)
          /\ subscribed_for_updates => have_trading_config /\ Len(accounts) > 0)

\* _run_update_subscription has been called twice (two receive loops are
\* scheduled or running) and each subscription request was sent once
C31_Witness ==
    /\ Cardinality({l \in Loops : pc[l] # "none"}) = 2
    /\ subscribed_for_updates
    /\ \E i \in DOMAIN sent : sent[i].msg = "RequestSubscribeForOrderUpdates"
    /\ \E i \in DOMAIN sent : sent[i].msg = "RequestSubscribeToBracketUpdates"

\* the receive loops that have started and have not left their while loop
ActiveLoops == {l \in Loops : pc[l] \in {"recv", "timeout"}}

\* C32: _consuming_updates is true exactly when a receive loop is active: it
\* is false before the loop starts and false again after the loop has
\* terminated, so that a later _run_update_subscription starts a new loop.
C32_ConsumingIffLoopActive ==
    /\ _consuming_updates = (ActiveLoops # {})
    /\ ActiveLoops = {} => StartsConsumer(_consuming_updates)

====
